---- MODULE Spec2Model ----
(***************************************************************************)
(* Model of the chunk stream cache of cyfs-bdt                             *)
(* (src/component/cyfs-bdt/src/ndn/chunk/cache2/stream.rs):                *)
(*   ChunkStreamCache  - RawCache + IncomeIndexQueue behind one RwLock     *)
(*   StreamDecoder     - pushes received pieces of a window into the cache *)
(*   StreamEncoder     - reads pieces of a window out of the cache         *)
(* IncomeIndexQueue, OutcomeIndexQueue, PushIndexResult and the piece      *)
(* descriptors live in files that are not part of the source tree at hand; *)
(* they are modelled from the specification (sections 3 and 4.1).          *)
(***************************************************************************)
EXTENDS Integers, Sequences, FiniteSets, TLC

\* ------------------------------------------------------------------ bounds
NumPieces == 3      \* piece_count of the chunk
MaxCallers == 2     \* threads that may be inside push_piece_data at once
PieceSize == 2      \* bytes of a full piece
MaxInFlight == 2    \* asynchronous fetches of one encoder tracked at once
NumPeers == 2       \* remote peers a channel may be created for
MaxSpeed == 4       \* largest speed a downloader or a channel session reports
MaxBatch == 2       \* datagrams in one batch the command tunnel delivers

ChunkLen == NumPieces * PieceSize - 1           \* the last piece is short
MaxCalls == NumPieces                           \* push_piece_data calls per run

Callers == 1 .. MaxCallers
Indices == 0 .. (NumPieces - 1)
PieceIndices == 0 .. NumPieces                  \* NumPieces: beyond the chunk
Bytes == 0 .. (ChunkLen - 1)

Min(a, b) == IF a < b THEN a ELSE b

\* ------------------------------------------------------------ descriptors
\* ChunkEncodeDesc of the two decoders: the full chunk and an inner window.
DecoderDesc(d) ==
    IF d = 1 THEN [start |-> 0, end |-> NumPieces, step |-> 1]
             ELSE [start |-> 1, end |-> NumPieces - 1, step |-> 1]
Decoders == 1 .. 2

\* ChunkEncodeDesc::unwrap_as_stream
unwrap_as_stream(desc) == <<desc.start, desc.end, desc.step>>

\* PieceDesc::stream_piece_range: the byte range of piece `index`
stream_piece_range(index) ==
    [start |-> index * PieceSize,
     end   |-> Min(index * PieceSize + PieceSize, ChunkLen)]

\* The content of the chunk, byte by byte; a piece's payload is the chunk's
\* content over the piece's byte range.  0 stands for a byte never written.
ChunkByte(b) == b + 1

\* --------------------------------------------------------------- results
\* BuckyResult<PushIndexResult>
Ok(valid, exists, finished) ==
    [kind |-> "Ok", valid |-> valid, exists |-> exists,
     finished |-> finished, code |-> "Ok"]
Err(code) ==
    [kind |-> "Err", valid |-> FALSE, exists |-> FALSE,
     finished |-> FALSE, code |-> code]
NoResult ==
    [kind |-> "None", valid |-> FALSE, exists |-> FALSE,
     finished |-> FALSE, code |-> "None"]
\* the call did not return: it panicked
Panicked ==
    [kind |-> "Panic", valid |-> FALSE, exists |-> FALSE,
     finished |-> FALSE, code |-> "Panic"]

\* PushIndexResult::pushed
pushed(r) == r.valid /\ ~r.exists

\* ------------------------------------------------------ IncomeIndexQueue
\* A queue is [reserved, committed]: the indices reserved by try_push and
\* the indices committed by push.
NewIncomeIndexQueue == [reserved |-> {}, committed |-> {}]

\* IncomeIndexQueue::try_push(index..index+1): the result
try_push_result(q, index) ==
    IF index >= NumPieces THEN Ok(FALSE, FALSE, FALSE)
    ELSE IF index \in q.committed \cup q.reserved THEN Ok(TRUE, TRUE, FALSE)
    ELSE Ok(TRUE, FALSE, FALSE)

\* IncomeIndexQueue::try_push(index..index+1): the queue afterwards
try_push_queue(q, index) ==
    IF pushed(try_push_result(q, index))
    THEN [q EXCEPT !.reserved = @ \cup {index}]
    ELSE q

\* IncomeIndexQueue::push(index..index+1): the queue afterwards
push_queue(q, index) ==
    [reserved |-> q.reserved \ {index}, committed |-> q.committed \cup {index}]

\* IncomeIndexQueue::push(index..index+1): the result
push_result(q, index) ==
    Ok(TRUE, FALSE, Indices \subseteq push_queue(q, index).committed)

\* IncomeIndexQueue::exists
queue_exists(q, index) == index \in q.committed

\* IncomeIndexQueue::require: the maximal runs of uncommitted indices of
\* [start, end), found by one scan from `at`; `open` is the start of the run
\* being scanned, or -1.
RECURSIVE missing_ranges(_, _, _, _)
missing_ranges(q, at, end, open) ==
    IF at >= end
    THEN IF open >= 0 THEN <<[start |-> open, end |-> end]>> ELSE <<>>
    ELSE IF at \in q.committed
         THEN IF open >= 0
              THEN <<[start |-> open, end |-> at]>>
                       \o missing_ranges(q, at + 1, end, -1)
              ELSE missing_ranges(q, at + 1, end, -1)
         ELSE missing_ranges(q, at + 1, end, IF open >= 0 THEN open ELSE at)

NoneRequire == [some |-> FALSE, next |-> -1, ranges |-> <<>>]

require(q, start, end, step) ==
    LET ranges == missing_ranges(q, start, end, -1)
    IN  IF ranges = <<>> THEN NoneRequire
        ELSE [some |-> TRUE,
              next |-> IF step > 0 THEN ranges[1].start
                                   ELSE ranges[Len(ranges)].end - 1,
              ranges |-> ranges]

\* ----------------------------------------------------- OutcomeIndexQueue
\* The queue is the sequence of indices still to be sent, in cursor order.
RECURSIVE OutcomeOrderFrom(_, _, _)
OutcomeOrderFrom(at, end, step) ==
    IF at >= end THEN <<>>
    ELSE <<at>> \o OutcomeOrderFrom(at + step, end, step)

\* OutcomeIndexQueue::new(start, end, step)
NewOutcomeIndexQueue(start, end, step) == OutcomeOrderFrom(start, end, step)

\* OutcomeIndexQueue::next: the head, -1 for None
outcome_next(q) == IF q = <<>> THEN -1 ELSE Head(q)

\* OutcomeIndexQueue::pop_next
outcome_pop_next(q) == IF q = <<>> THEN q ELSE Tail(q)

\* OutcomeIndexQueue::reset
outcome_reset(desc) == NewOutcomeIndexQueue(desc.start, desc.end, desc.step)

\* ------------------------------------------------- EncoderPendingState
PendingNone == [state |-> "None", index |-> -1, result |-> "None", stale |-> FALSE]
Pending(index) ==
    [state |-> "Pending", index |-> index, result |-> "None", stale |-> FALSE]
\* `stale` is history: the result comes from a fetch that a reset/merge abandoned
Waiting(index, result, stale) ==
    [state |-> "Waiting", index |-> index, result |-> result, stale |-> stale]

FetchSlots == 1 .. MaxInFlight
FreeSlot == [busy |-> FALSE, index |-> -1, stale |-> FALSE]

\* BuckyResult<usize> of next_piece
RetOk(n) == [kind |-> "Ok", n |-> n, code |-> "Ok"]
RetErr(code) == [kind |-> "Err", n |-> 0, code |-> code]
NoRet == [kind |-> "None", n |-> 0, code |-> "None"]

\* length of the header PieceData::encode_header writes
HeaderLen == 3

NoEncoderCall ==
    [op |-> "none", n |-> 0, from |-> "None", small |-> FALSE, index |-> -1,
     read |-> "none", lost |-> <<>>]

\* the ChunkEncodeDesc an encoder may be created with
EncoderDescs ==
    {[start |-> a, end |-> NumPieces, step |-> st] : a \in {0, 1}, st \in {1, 2}}

\* ---------------------------------------------------------------- state
VARIABLES
    \* ChunkStreamCache
    indices,    \* StateImpl.indices: the IncomeIndexQueue
    storage,    \* content of the installed RawCache: byte offset -> byte, 0 = never written
    syncRead,   \* whether the installed RawCache supports sync_reader()
    installed,  \* StateImpl.raw_cache: whether the OnceCell holds a RawCache
    \* callers of StreamDecoder::push_piece_data
    call,       \* per caller: the call it is in, and the call's outcome
    nCalls,     \* push_piece_data calls made so far
    fullWrites, \* history: indices whose whole range was written at its start
    finishedOn, \* history: indices whose push returned finished=true
    errorsOn,   \* history: indices whose push returned an error
    \* a single caller pushing the pieces of the full window in a given order
    order,      \* the order in which the pieces are pushed
    script,     \* the pieces still to be pushed
    reads,      \* index -> result of the sync_try_read made after the pushes
    rcall,      \* the last load, existence wait or read made on the cache by a
                \* user of the cache, and its outcome
    \* require_index on a given queue
    reqDesc,    \* the ChunkEncodeDesc asked for
    reqResult,  \* the value returned
    \* StreamEncoder
    encDesc,    \* EncoderImpl.desc
    pending,    \* EncoderStateImpl.pending
    outIndices, \* EncoderStateImpl.indices: the OutcomeIndexQueue
    fetches,    \* the spawned async_next_piece tasks that have not completed
    emitted,    \* history: the pieces next_piece returned since the last reset/merge
    ret,        \* the value the last next_piece call returned
    encOp,      \* history: the last call on the encoder (n: parity of the calls
                \* made), the pending state it found, whether its buf was too
                \* small for the header, the piece of the fetch that completed,
                \* the outcome of the sync_try_read or async_try_read it made;
                \* of a merge, its arguments (index: max_index)
    \* ChunkTask
    control_state, \* StateImpl.control_state: "Normal" or "Canceled"
    waiters,    \* the StateWaiter held by ControlStateImpl::Normal
    task_state, \* StateImpl.task_state
    contexts,   \* ids registered in the cache downloader's context
    tcall,      \* per thread: the ChunkTask call it is in, and its locals
    woken,      \* history: per waiter, how often it was woken
    removes,    \* history: remove_context calls made for the task's id
    firstCancel,\* history: the cancel call that took the state lock first
    lastWait,   \* history: per thread, how its last wait_user_canceled returned
    lastAcc,    \* the last accessor call and the value it returned
    taskReader, \* the ChunkTaskReader: "held", "dropping" or "dropped"
    \* ChannelManager
    entries,    \* Channels.entries: peer -> Channel
    download_history_speed, \* Channels.download_history_speed
    download_cur_speed,     \* Channels.download_cur_speed
    upload_history_speed,   \* Channels.upload_history_speed
    upload_cur_speed,       \* Channels.upload_cur_speed
    mcall,      \* per caller: the create_channel call it is in, and its result
    constructed,\* history: peer -> Channel::new calls made for it
    sched,      \* history: parity of the on_schedule calls made; of the last one, the
                \* sums and whether any session was counted
    rloop,      \* the task running recv_command: its position, the datagrams of
                \* the batch still to route, and history of the current batch
    lookup      \* the last channel_of / on_raw_data call and what it returned

cacheVars == <<indices, storage, syncRead, installed>>
callVars == <<call, nCalls, fullWrites, finishedOn, errorsOn>>
orderVars == <<order, script, reads, rcall>>
reqVars == <<reqDesc, reqResult>>
encVars == <<encDesc, pending, outIndices, fetches, emitted, ret, encOp>>
taskVars == <<control_state, waiters, task_state, contexts, tcall, woken,
              removes, firstCancel, lastWait, lastAcc, taskReader>>
mgrVars == <<entries, download_history_speed, download_cur_speed,
             upload_history_speed, upload_cur_speed, mcall, constructed, sched,
             rloop, lookup>>
vars == <<cacheVars, callVars, orderVars, reqVars, encVars, taskVars, mgrVars>>

IdleCall ==
    [pc |-> "idle", dec |-> 1, index |-> 0, during |-> FALSE,
     won |-> FALSE, wrote |-> FALSE, commit |-> FALSE, last |-> FALSE,
     writer |-> "none", pos |-> -2, n |-> -2,
     result |-> NoResult]

NoRead == [kind |-> "None", code |-> "None", len |-> 0, data |-> <<>>]

\* a call on the cache: op, its arguments (timeout: whether Some), what the
\* storage has in store for it (the outcomes of opening the reader, of the
\* seek and of the read) and what the call returned
NoCacheCall ==
    [op |-> "none", index |-> 0, timeout |-> FALSE, reader |-> "none",
     pos |-> -2, n |-> -2, read |-> NoRead]
NoRequire == [done |-> FALSE, res |-> NoneRequire]

\* ------------------------------------------------------------- ChunkTask
\* threads holding a clone of the ChunkTask: the ones that call cancel or
\* drop the reader, and the ones that call wait_user_canceled
Cancelers == 1 .. MaxCallers
WaitThreads == (MaxCallers + 1) .. (2 * MaxCallers)
TaskThreads == Cancelers \cup WaitThreads

\* IncreaseId returned by add_context for the task's context, and the id of
\* a context some other task registered with the same downloader
TaskContext == "task"
OtherContext == "other"

\* TaskStateImpl
Downloading == [state |-> "Downloading", code |-> "Ok"]
TaskError(code) == [state |-> "Error", code |-> code]
Finished == [state |-> "Finished", code |-> "Ok"]
TaskStates == {Downloading, TaskError("UserCanceled"), Finished}

\* StateWaiter::new
NewStateWaiter == {}

\* StateWaiter::new_waiter: the waiter of thread t is added
new_waiter(ws, t) == ws \cup {t}

\* StateWaiter::transfer: the waiters are moved out and none is left behind
transfer(ws) == [taken |-> ws, left |-> {}]

IdleTaskCall ==
    [pc |-> "idle", op |-> "none", some |-> FALSE, taken |-> {},
     cancel |-> FALSE, first |-> FALSE, drop |-> FALSE, ret |-> "none"]

NoWait == [registered |-> FALSE, immediate |-> FALSE, woken |-> FALSE]
NoCancel == [by |-> 0, returned |-> FALSE, ret |-> "none"]
NoAccessor == [name |-> "none", state |-> Downloading, value |-> 0,
               delegated |-> FALSE, ret |-> 0]

\* no ChunkTask has been constructed
NoTask ==
    /\ control_state = "none"
    /\ waiters = {}
    /\ task_state = "none"
    /\ contexts = {}
    /\ tcall = <<>>
    /\ woken = <<>>
    /\ removes = 0
    /\ firstCancel = NoCancel
    /\ lastWait = <<>>
    /\ lastAcc = NoAccessor
    /\ taskReader = "none"

\* ChunkTask::new / ChunkTask::reader
InitTask ==
    /\ control_state = "Normal"
    /\ waiters = NewStateWaiter
    /\ task_state = Downloading
    /\ contexts = {OtherContext, TaskContext}
    /\ tcall = [t \in TaskThreads |-> IdleTaskCall]
    /\ woken = [t \in TaskThreads |-> 0]
    /\ removes = 0
    /\ firstCancel = NoCancel
    /\ lastWait = [t \in TaskThreads |-> NoWait]
    /\ lastAcc = NoAccessor
    /\ taskReader = "held"

\* -------------------------------------------------------- ChannelManager
Peers == 1 .. NumPeers

\* the receive loop (0) and the other callers of create_channel
Creators == 0 .. (MaxCallers - 1)

\* HistorySpeed: the smoothing keeps half of the previous average
Smoothing == 2

\* Option<u32> passed to HistorySpeed::update
NoSample == [some |-> FALSE, speed |-> 0]
Sample(speed) == [some |-> TRUE, speed |-> speed]

\* HistorySpeed::new(initial, config)
NewHistorySpeed(initial) == [average |-> initial, sample |-> NoSample]

\* HistorySpeed::update(cur_speed, when): a sample is smoothed into the
\* average, no sample lets the average decay towards zero
update(h, cur_speed) ==
    [average |-> IF cur_speed.some
                 THEN (h.average * (Smoothing - 1) + cur_speed.speed) \div Smoothing
                 ELSE (h.average * (Smoothing - 1)) \div Smoothing,
     sample |-> cur_speed]

\* HistorySpeed::average
average(h) == h.average

\* Channel::download_session_count / upload_session_count
SessionCounts == 0 .. 1

\* Channel::calc_speed, one direction: the speed of a channel is the speed of
\* its sessions of that direction
ChannelSpeeds(session_count) ==
    IF session_count = 0 THEN {0} ELSE {0, MaxSpeed}

IdleCreate ==
    [pc |-> "idle", peer |-> 0, kind |-> "none", channel |-> <<0, 0>>,
     existed |-> FALSE, changed |-> FALSE]

NoSchedule ==
    [ticks |-> 0, download_sum |-> 0, upload_sum |-> 0,
     download_active |-> FALSE, upload_active |-> FALSE]

\* a datagram of the command tunnel: its source peer, and whether its payload
\* decodes
Datagrams == [source : Peers, malformed : BOOLEAN]

\* the batches recv_v may deliver
Batches ==
    UNION {[1 .. n -> Datagrams] : n \in 0 .. MaxBatch}

\* BuckyResult<Vec<Datagram>> of recv_v
RecvOk(datagrams) == [ok |-> TRUE, datagrams |-> datagrams]
RecvErr == [ok |-> FALSE, datagrams |-> <<>>]

\* the receive loop: pc is "recv" (awaiting recv_v), "datagram" (at the head
\* of the for loop), "create" (inside create_channel), "channel" (holding the
\* channel, before on_datagram) or "panicked" (an unwrap failed; the task is
\* gone); got and routed are history of the batch being routed
NoLoop ==
    [pc |-> "none", batch |-> <<>>, got |-> <<>>, routed |-> <<>>,
     last |-> "none", iter |-> 0]
IdleLoop == [NoLoop EXCEPT !.pc = "recv"]

NoLookup ==
    [op |-> "none", peer |-> 0, kind |-> "none", code |-> "none",
     channel |-> <<0, 0>>]

\* no ChannelManager has been constructed
NoManager ==
    /\ entries = <<>>
    /\ download_history_speed = NewHistorySpeed(0)
    /\ download_cur_speed = 0
    /\ upload_history_speed = NewHistorySpeed(0)
    /\ upload_cur_speed = 0
    /\ mcall = <<>>
    /\ constructed = <<>>
    /\ sched = NoSchedule
    /\ rloop = NoLoop
    /\ lookup = NoLookup

\* ChannelManager::new
InitManager ==
    /\ entries = <<>>
    /\ download_history_speed = NewHistorySpeed(0)
    /\ download_cur_speed = 0
    /\ upload_history_speed = NewHistorySpeed(0)
    /\ upload_cur_speed = 0
    /\ mcall = [c \in Creators |-> IdleCreate]
    /\ constructed = [p \in Peers |-> 0]
    /\ sched = NoSchedule
    /\ rloop = IdleLoop
    /\ lookup = NoLookup

\* ChunkStreamCache::new, followed by the installation of the RawCache
InitCache ==
    /\ indices = NewIncomeIndexQueue
    /\ storage = [b \in Bytes |-> 0]
    /\ call = [c \in Callers |-> IdleCall]
    /\ nCalls = 0
    /\ fullWrites = {}
    /\ finishedOn = {}
    /\ errorsOn = {}

InitOrder ==
    /\ order = <<>>
    /\ script = <<>>
    /\ reads = [i \in Indices |-> NoRead]
    /\ rcall = NoCacheCall

InitRequire ==
    /\ reqDesc = DecoderDesc(1)
    /\ reqResult = NoRequire

\* StreamEncoder::new
InitEncoder ==
    /\ pending = PendingNone
    /\ outIndices = NewOutcomeIndexQueue(unwrap_as_stream(encDesc)[1],
                                         unwrap_as_stream(encDesc)[2],
                                         unwrap_as_stream(encDesc)[3])
    /\ fetches = [s \in FetchSlots |-> FreeSlot]
    /\ emitted = <<>>
    /\ ret = NoRet
    /\ encOp = NoEncoderCall

\* a cache with its RawCache installed, no piece pushed yet
InitStream ==
    /\ InitCache
    /\ syncRead = TRUE
    /\ installed = TRUE
    /\ InitOrder
    /\ InitRequire
    /\ encDesc = DecoderDesc(1)
    /\ InitEncoder

Init ==
    /\ InitStream
    /\ NoTask
    /\ NoManager

\* a ChunkTask on that cache
InitDownload ==
    /\ InitStream
    /\ InitTask
    /\ NoManager

\* a ChannelManager
InitChannels ==
    /\ InitStream
    /\ NoTask
    /\ InitManager

\* ------------------------------------------------------ ChunkStreamCache
\* mutant: the end of the window is passed off by one
require_index_EndExcluded(q, desc) ==
    require(q, unwrap_as_stream(desc)[1], unwrap_as_stream(desc)[2] - 1,
            unwrap_as_stream(desc)[3])

\* ChunkStreamCache::require_index
require_index(q, desc) ==
    require(q, unwrap_as_stream(desc)[1], unwrap_as_stream(desc)[2],
            unwrap_as_stream(desc)[3])

\* ChunkStreamCache::exists
exists(index) == queue_exists(indices, index)

\* mutant: the early return is taken only for an invalid index
ReturnsEarly_OnlyInvalid(index_result) == ~index_result.valid

\* push_piece_data: `if !index_result.pushed() { return Ok(index_result) }`
ReturnsEarly(index_result) == ~pushed(index_result)

\* mutant: the position the seek returned is not compared with the range start
SeekMatches_Unchecked(range, pos) == TRUE

\* push_piece_data: `range.start == writer.seek(SeekFrom::Start(range.start))?`
SeekMatches(range, pos) == range.start = pos

\* mutant: the written byte count is not compared with the range length
LenMatches_Unchecked(range, n) == TRUE

\* push_piece_data: `len == writer.write(&piece.data[..len])?`
LenMatches(range, n) == (range.end - range.start) = n

\* mutant: the bytes written are taken from the start of the chunk
WriteBytes_FromChunkStart(st, pos, n, index) ==
    [b \in Bytes |->
        IF pos <= b /\ b < pos + n THEN ChunkByte(b - pos) ELSE st[b]]

\* the write of the first n bytes of the payload of piece `index` at offset pos
WriteBytes(st, pos, n, index) ==
    [b \in Bytes |->
        IF pos <= b /\ b < pos + n
        THEN ChunkByte(stream_piece_range(index).start + (b - pos))
        ELSE st[b]]

\* --------------------------------------------------------- StreamDecoder
\* mutant: off by one at the upper end of the window
OutOfWindow_EndIncluded(desc, index) ==
    index < unwrap_as_stream(desc)[1] \/ index > unwrap_as_stream(desc)[2]

\* push_piece_data: `index < start || index >= end`
OutOfWindow(desc, index) ==
    index < unwrap_as_stream(desc)[1] \/ index >= unwrap_as_stream(desc)[2]

\* mutant: every pushed piece is reported as finishing the window
DecoderResult_AlwaysFinished(result, req) ==
    IF pushed(result) THEN Ok(TRUE, FALSE, TRUE) ELSE result

\* push_piece_data: the result the decoder returns for the cache's result
\* and the outcome of its own require_index
DecoderResult(result, req) ==
    IF pushed(result)
    THEN IF ~req.some THEN Ok(TRUE, FALSE, TRUE) ELSE result
    ELSE result

Window(d) == DecoderDesc(d).start .. (DecoderDesc(d).end - 1)

\* Some other caller is inside push_piece_data for the same index.
InProgress(c, index) ==
    \E o \in Callers \ {c} :
        call[o].index = index /\ call[o].pc \in {"reserved", "writer", "written"}

\* StreamDecoder::push_piece_data up to the window check, then
\* ChunkStreamCache::push_piece_data up to the early return after try_push.
try_push_step(c, d, index) ==
    LET entered == [IdleCall EXCEPT !.dec = d, !.index = index,
                                    !.during = InProgress(c, index)]
        \* c's record of its previous call is reused: the calls that were
        \* recorded as concurrent with it are no longer compared with it
        kept == [o \in Callers |->
                    IF /\ call[c].won
                       /\ call[o].index = call[c].index
                       /\ call[o].during
                    THEN [call[o] EXCEPT !.during = FALSE]
                    ELSE call[o]]
    IN
    /\ call[c].pc \in {"idle", "done"}
    /\ nCalls < MaxCalls
    /\ nCalls' = nCalls + 1
    /\ IF OutOfWindow(DecoderDesc(d), index)
       THEN /\ call' = [kept EXCEPT ![c] =
                          [entered EXCEPT !.pc = "done",
                                          !.result = Ok(FALSE, FALSE, FALSE)]]
            /\ UNCHANGED indices
       ELSE LET index_result == try_push_result(indices, index)
            IN  /\ indices' = try_push_queue(indices, index)
                /\ IF ReturnsEarly(index_result)
                   THEN call' = [kept EXCEPT ![c] =
                                   [entered EXCEPT !.pc = "done",
                                                   !.result = index_result]]
                   ELSE call' = [kept EXCEPT ![c] =
                                   [entered EXCEPT !.pc = "reserved",
                                                   !.won = pushed(index_result)]]
    /\ UNCHANGED <<storage, syncRead, installed, fullWrites, finishedOn, errorsOn>>

push_try_push(c, d, index) ==
    /\ try_push_step(c, d, index)
    /\ UNCHANGED <<orderVars, reqVars, encVars,
                 taskVars, mgrVars>>

\* `raw_cache.get()` is Some
RawCacheSet(cell) == cell

\* ChunkStreamCache::push_piece_data: raw_cache.get().unwrap().sync_writer()?
push_sync_writer(c) ==
    /\ call[c].pc = "reserved"
    /\ IF RawCacheSet(installed)
       THEN \E ok \in BOOLEAN :
              call' = [call EXCEPT
                         ![c].pc = IF ok THEN "writer" ELSE "done",
                         ![c].writer = IF ok THEN "Ok" ELSE "Err",
                         ![c].result = IF ok THEN NoResult ELSE Err("Io")]
       ELSE \* raw_cache.get().unwrap() on an empty cell
            call' = [call EXCEPT ![c].pc = "panicked", ![c].result = Panicked]
    /\ errorsOn' = IF call'[c].pc = "done" THEN errorsOn \cup {call[c].index}
                                           ELSE errorsOn
    /\ UNCHANGED <<cacheVars, nCalls, fullWrites, finishedOn>>
    /\ UNCHANGED <<orderVars, reqVars, encVars,
                 taskVars, mgrVars>>

\* ChunkStreamCache::push_piece_data: seek, then write, then the two checks
push_seek_write(c) ==
    LET range == stream_piece_range(call[c].index)
        len == range.end - range.start
    IN
    /\ call[c].pc = "writer"
    /\ \E pos \in {range.start, range.start + 1, -1},
          n \in {len, len - 1, -1} :
         IF pos = -1
         THEN \* seek failed
              /\ call' = [call EXCEPT ![c].pc = "done", ![c].pos = pos,
                                      ![c].result = Err("Io")]
              /\ UNCHANGED <<storage, fullWrites>>
         ELSE IF ~SeekMatches(range, pos)
         THEN /\ call' = [call EXCEPT ![c].pc = "done", ![c].pos = pos,
                                      ![c].result = Err("InvalidInput")]
              /\ UNCHANGED <<storage, fullWrites>>
         ELSE IF n = -1
         THEN \* write failed
              /\ call' = [call EXCEPT ![c].pc = "done", ![c].wrote = TRUE,
                                      ![c].pos = pos, ![c].n = n,
                                      ![c].result = Err("Io")]
              /\ UNCHANGED <<storage, fullWrites>>
         ELSE /\ storage' = WriteBytes(storage, pos, n, call[c].index)
              /\ fullWrites' = IF pos = range.start /\ n = len
                               THEN fullWrites \cup {call[c].index}
                               ELSE fullWrites
              /\ IF LenMatches(range, n)
                 THEN call' = [call EXCEPT ![c].pc = "written", ![c].wrote = TRUE,
                                           ![c].pos = pos, ![c].n = n]
                 ELSE call' = [call EXCEPT ![c].pc = "done", ![c].wrote = TRUE,
                                           ![c].pos = pos, ![c].n = n,
                                           ![c].result = Err("InvalidInput")]
    /\ errorsOn' = IF call'[c].pc = "done" THEN errorsOn \cup {call[c].index}
                                           ELSE errorsOn
    /\ UNCHANGED <<indices, syncRead, installed, nCalls, finishedOn>>
    /\ UNCHANGED <<orderVars, reqVars, encVars,
                 taskVars, mgrVars>>

\* ChunkStreamCache::push_piece_data: state.write().indices.push(index..index+1)
push_commit(c) ==
    /\ call[c].pc = "written"
    /\ indices' = push_queue(indices, call[c].index)
    /\ call' = [call EXCEPT
                  ![c].pc = "committed",
                  ![c].commit = TRUE,
                  ![c].last = Window(call[c].dec) \subseteq indices'.committed,
                  ![c].result = push_result(indices, call[c].index)]
    /\ UNCHANGED <<storage, syncRead, installed, nCalls, fullWrites, finishedOn, errorsOn>>
    /\ UNCHANGED <<orderVars, reqVars, encVars,
                 taskVars, mgrVars>>

\* StreamDecoder::push_piece_data: require_index after a pushed piece
push_require(c) ==
    LET result == DecoderResult(call[c].result,
                      require_index(indices, DecoderDesc(call[c].dec)))
    IN
    /\ call[c].pc = "committed"
    /\ call' = [call EXCEPT ![c].pc = "done", ![c].result = result]
    /\ finishedOn' = IF result.finished THEN finishedOn \cup {call[c].index}
                                        ELSE finishedOn
    /\ UNCHANGED <<cacheVars, nCalls, fullWrites, errorsOn>>
    /\ UNCHANGED <<orderVars, reqVars, encVars,
                 taskVars, mgrVars>>

Next ==
    \E c \in Callers :
        \/ \E d \in Decoders, index \in PieceIndices :
               push_try_push(c, d, index)
        \/ push_sync_writer(c)
        \/ push_seek_write(c)
        \/ push_commit(c)
        \/ push_require(c)

Spec == Init /\ [][Next]_vars

\* ---------------------------------------------------- sync_try_read
ReadOk(len, data) == [kind |-> "Ok", code |-> "Ok", len |-> len, data |-> data]
ReadErr(code) == [kind |-> "Err", code |-> code, len |-> 0, data |-> <<>>]
\* the call did not return: it panicked
ReadPanic == [kind |-> "Panic", code |-> "Panic", len |-> 0, data |-> <<>>]

\* what raw_cache.sync_reader() may return
ReaderOutcomes == IF syncRead THEN {"Ok", "Io"} ELSE {"UnSupport"}

\* mutant: the reader is opened before the index is looked up
sync_try_read_ReaderFirst(index, reader, pos, n) ==
    LET range == stream_piece_range(index)
        len == range.end - range.start
    IN  IF reader # "Ok" THEN ReadErr(reader)
        ELSE IF ~exists(index) THEN ReadErr("NotFound")
        ELSE IF pos = -1 THEN ReadErr("Io")
        ELSE IF range.start # pos THEN ReadErr("InvalidInput")
        ELSE IF n = -1 THEN ReadErr("Io")
        ELSE IF len # n THEN ReadErr("InvalidInput")
        ELSE ReadOk(len, [k \in 1 .. len |-> storage[pos + k - 1]])

\* ChunkStreamCache::sync_try_read, for the outcomes of sync_reader(), of the
\* seek (a position, -1 = error) and of the read (a byte count, -1 = error)
sync_try_read(index, reader, pos, n) ==
    LET range == stream_piece_range(index)
        len == range.end - range.start
    IN  IF ~exists(index) THEN ReadErr("NotFound")
        ELSE IF ~RawCacheSet(installed) THEN ReadPanic
        ELSE IF reader # "Ok" THEN ReadErr(reader)
        ELSE IF pos = -1 THEN ReadErr("Io")
        ELSE IF range.start # pos THEN ReadErr("InvalidInput")
        ELSE IF n = -1 THEN ReadErr("Io")
        ELSE IF len # n THEN ReadErr("InvalidInput")
        ELSE ReadOk(len, [k \in 1 .. len |-> storage[pos + k - 1]])

\* what raw_cache.async_reader().await may return
AsyncReaderOutcomes == {"Ok", "Io"}

\* ChunkStreamCache::async_try_read, for the outcomes of async_reader(), of
\* the seek and of the read
async_try_read(index, reader, pos, n) ==
    LET range == stream_piece_range(index)
        len == range.end - range.start
    IN  IF ~exists(index) THEN ReadErr("NotFound")
        ELSE IF ~RawCacheSet(installed) THEN ReadPanic
        ELSE IF reader # "Ok" THEN ReadErr(reader)
        ELSE IF pos = -1 THEN ReadErr("Io")
        ELSE IF range.start # pos THEN ReadErr("InvalidInput")
        ELSE IF n = -1 THEN ReadErr("Io")
        ELSE IF len # n THEN ReadErr("InvalidInput")
        ELSE ReadOk(len, [k \in 1 .. len |-> storage[pos + k - 1]])

TryReads == {"sync_try_read", "async_try_read"}

\* a sync_try_read or async_try_read call for piece `index`
try_read(op, index, reader, pos, n) ==
    /\ op \in TryReads
    /\ reader \in IF op = "sync_try_read" THEN ReaderOutcomes
                                          ELSE AsyncReaderOutcomes
    /\ rcall' = [NoCacheCall EXCEPT
                   !.op = op, !.index = index, !.reader = reader,
                   !.pos = pos, !.n = n,
                   !.read = IF op = "sync_try_read"
                            THEN sync_try_read(index, reader, pos, n)
                            ELSE async_try_read(index, reader, pos, n)]
    /\ UNCHANGED <<cacheVars, callVars, order, script, reads, reqVars, encVars,
                   taskVars, mgrVars>>

\* ChunkStreamCache::load: `unimplemented!()`
load(finished) ==
    /\ rcall' = [NoCacheCall EXCEPT !.op = "load", !.read = ReadPanic]
    /\ UNCHANGED <<cacheVars, callVars, order, script, reads, reqVars, encVars,
                   taskVars, mgrVars>>

\* ChunkStreamCache::async_exists: `unimplemented!()`
AsyncExists(index, timeout) == ReadPanic

\* an async_exists call; timeout: whether a timeout is given
async_exists(index, timeout) ==
    /\ rcall' = [NoCacheCall EXCEPT
                   !.op = "async_exists", !.index = index, !.timeout = timeout,
                   !.read = AsyncExists(index, timeout)]
    /\ UNCHANGED <<cacheVars, callVars, order, script, reads, reqVars, encVars,
                   taskVars, mgrVars>>

\* ChunkStreamCache::async_read: async_exists(..).await?, then the read
async_read(index, timeout, reader, pos, n) ==
    LET found == AsyncExists(index, timeout)
    IN
    /\ reader \in AsyncReaderOutcomes
    /\ rcall' = [NoCacheCall EXCEPT
                   !.op = "async_read", !.index = index, !.timeout = timeout,
                   !.reader = reader, !.pos = pos, !.n = n,
                   !.read = IF found.kind # "Ok" THEN found
                            ELSE async_try_read(index, reader, pos, n)]
    /\ UNCHANGED <<cacheVars, callVars, order, script, reads, reqVars, encVars,
                   taskVars, mgrVars>>

\* the positions a seek to the start of piece `index` may return (-1: error)
SeekOutcomes(index) ==
    {stream_piece_range(index).start, stream_piece_range(index).start + 1, -1}

\* the byte counts a read or write of piece `index` may return (-1: error)
CountOutcomes(index) ==
    {stream_piece_range(index).end - stream_piece_range(index).start,
     stream_piece_range(index).end - stream_piece_range(index).start - 1, -1}

\* ------------------------------------- pieces pushed in a given order
\* every order in which the pieces of the full window can arrive
Orders ==
    {o \in [1 .. NumPieces -> Indices] :
        \A j, k \in 1 .. NumPieces : j # k => o[j] # o[k]}

InitScript ==
    /\ InitCache
    /\ syncRead \in BOOLEAN
    /\ installed = TRUE
    /\ order \in Orders
    /\ script = order
    /\ reads = [i \in Indices |-> NoRead]
    /\ rcall = NoCacheCall
    /\ InitRequire
    /\ encDesc = DecoderDesc(1)
    /\ InitEncoder
    /\ NoTask
    /\ NoManager

\* the single caller pushes the next piece of the script through decoder 1
ScriptPush ==
    /\ script # <<>>
    /\ try_push_step(1, 1, Head(script))
    /\ script' = Tail(script)
    /\ UNCHANGED <<order, reads, rcall, reqVars, encVars,
                 taskVars, mgrVars>>

\* after the last push has returned, piece i is read back
ReadBack(i) ==
    /\ script = <<>>
    /\ call[1].pc = "done"
    /\ reads[i] = NoRead
    /\ \E reader \in ReaderOutcomes,
          pos \in {stream_piece_range(i).start, stream_piece_range(i).start + 1, -1},
          n \in {stream_piece_range(i).end - stream_piece_range(i).start,
                 stream_piece_range(i).end - stream_piece_range(i).start - 1, -1} :
         reads' = [reads EXCEPT ![i] = sync_try_read(i, reader, pos, n)]
    /\ UNCHANGED <<cacheVars, callVars, order, script, rcall, reqVars, encVars,
                 taskVars, mgrVars>>

NextScript ==
    \/ ScriptPush
    \/ push_sync_writer(1)
    \/ push_seek_write(1)
    \/ push_commit(1)
    \/ push_require(1)
    \/ \E i \in Indices : ReadBack(i)

SpecOrder == InitScript /\ [][NextScript]_vars

\* --------------------------------------------- require_index on any queue
RequireDescs ==
    {[start |-> a, end |-> b, step |-> st] :
        a \in 0 .. NumPieces, b \in 0 .. NumPieces, st \in {1, -1}}

InitQueues ==
    /\ indices \in {[reserved |-> r, committed |-> cm] :
                        r \in SUBSET Indices, cm \in SUBSET Indices}
    /\ indices.reserved \cap indices.committed = {}
    /\ storage = [b \in Bytes |-> 0]
    /\ syncRead = TRUE
    /\ installed = TRUE
    /\ call = [c \in Callers |-> IdleCall]
    /\ nCalls = 0
    /\ fullWrites = indices.committed
    /\ finishedOn = {}
    /\ errorsOn = {}
    /\ InitOrder
    /\ reqDesc \in RequireDescs
    /\ reqDesc.start < reqDesc.end
    /\ reqResult = NoRequire
    /\ encDesc = DecoderDesc(1)
    /\ InitEncoder
    /\ NoTask
    /\ NoManager

\* StreamDecoder::require_index / ChunkStreamCache::require_index
ApplyRequire ==
    /\ ~reqResult.done
    /\ reqResult' = [done |-> TRUE, res |-> require_index(indices, reqDesc)]
    /\ UNCHANGED <<cacheVars, callVars, orderVars, reqDesc, encVars,
                 taskVars, mgrVars>>

NextRequire == ApplyRequire

SpecRequire == InitQueues /\ [][NextRequire]_vars

\* ------------------------------------------ a cache without its RawCache
\* ChunkStreamCache::new; load has not installed a RawCache
InitCreated ==
    /\ InitCache
    /\ syncRead = TRUE
    /\ installed = FALSE
    /\ InitOrder
    /\ InitRequire
    /\ encDesc = DecoderDesc(1)
    /\ InitEncoder
    /\ NoTask
    /\ NoManager

NextCreated ==
    \/ \E c \in Callers, d \in Decoders, index \in PieceIndices :
           push_try_push(c, d, index)
    \/ \E c \in Callers : push_sync_writer(c)
    \/ \E finished \in BOOLEAN : load(finished)
    \/ \E op \in TryReads, index \in Indices, reader \in {"Ok", "Io"} :
           \E pos \in SeekOutcomes(index), n \in CountOutcomes(index) :
               try_read(op, index, reader, pos, n)

SpecCreated == InitCreated /\ [][NextCreated]_vars

\* --------------------------------------------------------- StreamEncoder
\* a cache some of whose pieces have been received, and a new encoder on it
InitUpload ==
    /\ indices \in {[reserved |-> {}, committed |-> cm] : cm \in SUBSET Indices}
    /\ storage = [b \in Bytes |->
                    IF \E i \in indices.committed :
                          stream_piece_range(i).start <= b
                              /\ b < stream_piece_range(i).end
                    THEN ChunkByte(b) ELSE 0]
    /\ syncRead \in BOOLEAN
    /\ installed = TRUE
    /\ call = [c \in Callers |-> IdleCall]
    /\ nCalls = 0
    /\ fullWrites = indices.committed
    /\ finishedOn = {}
    /\ errorsOn = {}
    /\ InitOrder
    /\ InitRequire
    /\ encDesc \in EncoderDescs
    /\ InitEncoder
    /\ NoTask
    /\ NoManager

InFlight == {s \in FetchSlots : fetches[s].busy}

\* task::spawn(encoder.async_next_piece(piece_desc)): the fetch takes the
\* first free slot
Spawned(index) ==
    LET free == {s \in FetchSlots : ~fetches[s].busy}
        slot == CHOOSE s \in free : \A o \in free : s <= o
    IN  [fetches EXCEPT ![slot] = [busy |-> TRUE, index |-> index, stale |-> FALSE]]

\* history: the call `op` is made on the encoder
Called(op, small, index) ==
    [op |-> op, n |-> (encOp.n + 1) % 2, from |-> pending.state,
     small |-> small, index |-> index, read |-> "none", lost |-> <<>>]

\* next_piece, Waiting: `state.indices.next() == Some(index)`
HeadMatches(head, index) == head = index

\* next_piece, state Pending
next_piece_pending ==
    /\ ret' = RetOk(0)
    /\ UNCHANGED <<pending, outIndices, fetches, emitted>>

\* mutant: the result stays in the pending state after it was taken
PendingAfterPickup_Kept(p) == p

\* next_piece, Waiting: `state.pending = EncoderPendingState::None`
PendingAfterPickup(p) == PendingNone

\* mutant: the stored failure is reported as "nothing to send"
WaitingFailure_Swallowed(result) == RetOk(0)

\* next_piece, Waiting: `Err(err) => Err(err)`
WaitingFailure(result) == RetErr(result)

\* next_piece, state Waiting; buf_small: `buf` has no room for the header, and
\* encode_header fails
next_piece_waiting(buf_small) ==
    LET range == stream_piece_range(pending.index)
    IN
    /\ pending' = PendingAfterPickup(pending)
    /\ UNCHANGED fetches
    /\ IF pending.result = "Ok"
       THEN IF HeadMatches(outcome_next(outIndices), pending.index)
            THEN /\ outIndices' = outcome_pop_next(outIndices)
                 /\ IF ~buf_small
                    THEN /\ ret' = RetOk(HeaderLen + (range.end - range.start))
                         /\ emitted' = Append(emitted,
                                [index |-> pending.index, via |-> "async",
                                 stale |-> pending.stale])
                    ELSE /\ ret' = RetErr("OutOfLimit")
                         /\ UNCHANGED emitted
            ELSE /\ ret' = RetOk(0)
                 /\ UNCHANGED <<outIndices, emitted>>
       ELSE /\ ret' = WaitingFailure(pending.result)
            /\ UNCHANGED <<outIndices, emitted>>

\* mutant: an UnSupport failure is returned like any other
RetriesAsync_Never(code) == FALSE

\* next_piece, None: `BuckyErrorCode::UnSupport == err.code()`
RetriesAsync(code) == code = "UnSupport"

\* next_piece, state None
next_piece_none(buf_small) ==
    LET index == outcome_next(outIndices)
        range == stream_piece_range(index)
    IN
    IF index # -1 /\ exists(index)
    THEN IF buf_small
         THEN /\ ret' = RetErr("OutOfLimit")
              /\ encOp' = Called("next_piece", buf_small, -1)
              /\ UNCHANGED <<pending, outIndices, fetches, emitted>>
         ELSE \E reader \in ReaderOutcomes,
                 pos \in {range.start, range.start + 1, -1},
                 n \in {range.end - range.start, range.end - range.start - 1, -1} :
                LET read == sync_try_read(index, reader, pos, n)
                IN  /\ encOp' = [Called("next_piece", buf_small, -1)
                                    EXCEPT !.read = read.code]
                    /\ IF read.kind = "Ok"
                       THEN /\ outIndices' = outcome_pop_next(outIndices)
                            /\ ret' = RetOk(HeaderLen + read.len)
                            /\ emitted' = Append(emitted,
                                   [index |-> index, via |-> "sync", stale |-> FALSE])
                            /\ UNCHANGED <<pending, fetches>>
                       ELSE IF RetriesAsync(read.code)
                       THEN /\ InFlight # FetchSlots
                            /\ pending' = Pending(index)
                            /\ fetches' = Spawned(index)
                            /\ ret' = RetOk(0)
                            /\ UNCHANGED <<outIndices, emitted>>
                       ELSE /\ ret' = RetErr(read.code)
                            /\ UNCHANGED <<pending, outIndices, fetches, emitted>>
    ELSE /\ ret' = RetOk(0)
         /\ encOp' = Called("next_piece", buf_small, -1)
         /\ UNCHANGED <<pending, outIndices, fetches, emitted>>

\* StreamEncoder::next_piece
next_piece(buf_small) ==
    /\ CASE pending.state = "Pending" ->
                next_piece_pending /\ encOp' = Called("next_piece", buf_small, -1)
         [] pending.state = "Waiting" ->
                /\ next_piece_waiting(buf_small)
                /\ encOp' = Called("next_piece", buf_small, -1)
         [] pending.state = "None" -> next_piece_none(buf_small)
    /\ UNCHANGED <<cacheVars, callVars, orderVars, reqVars, encDesc,
                 taskVars, mgrVars>>

\* mutant: the result is stored whatever the pending state is
AcceptsResult_Always(p, index) == TRUE

\* async_next_piece: `if let Pending(pending_desc) = &state.pending` and
\* `pending_desc.eq(&piece_desc)`
AcceptsResult(p, index) == p.state = "Pending" /\ p.index = index

\* StreamEncoder::async_next_piece: the fetch in slot s completes with `result`
async_next_piece(s, result) ==
    /\ fetches[s].busy
    /\ fetches' = [fetches EXCEPT ![s] = FreeSlot]
    /\ IF AcceptsResult(pending, fetches[s].index)
       THEN pending' = Waiting(fetches[s].index, result, fetches[s].stale)
       ELSE UNCHANGED pending
    /\ encOp' = [Called("async_next_piece", FALSE, fetches[s].index)
                    EXCEPT !.read = result]
    /\ UNCHANGED <<outIndices, emitted, ret>>
    /\ UNCHANGED <<cacheVars, callVars, orderVars, reqVars, encDesc,
                 taskVars, mgrVars>>

\* history: the fetch of an abandoned Pending piece becomes stale
Abandoned(p, after) ==
    [s \in FetchSlots |->
        IF p.state = "Pending" /\ after.state = "None"
               /\ fetches[s].busy /\ fetches[s].index = p.index
        THEN [fetches[s] EXCEPT !.stale = TRUE]
        ELSE fetches[s]]

\* reset: the pending state after the cursor was rewound to `head`
PendingAfterReset(p, head) ==
    IF p.state \in {"Pending", "Waiting"} /\ head # p.index
    THEN PendingNone ELSE p

\* StreamEncoder::reset
reset ==
    /\ outIndices' = outcome_reset(encDesc)
    /\ pending' = PendingAfterReset(pending, outcome_next(outIndices'))
    /\ fetches' = Abandoned(pending, pending')
    /\ emitted' = <<>>
    /\ encOp' = Called("reset", FALSE, -1)
    /\ UNCHANGED ret
    /\ UNCHANGED <<cacheVars, callVars, orderVars, reqVars, encDesc,
                 taskVars, mgrVars>>

\* mutant: merge leaves the pending piece alone
PendingAfterMerge_Kept(p, head) == p

\* merge: the pending state after the cursor was rewound to `head`
PendingAfterMerge(p, head) ==
    IF p.state \in {"Pending", "Waiting"} /\ head # p.index
    THEN PendingNone ELSE p

\* StreamEncoder::merge
merge(max_index, lost_index) ==
    /\ outIndices' = outcome_reset(encDesc)
    /\ pending' = PendingAfterMerge(pending, outcome_next(outIndices'))
    /\ fetches' = Abandoned(pending, pending')
    /\ emitted' = <<>>
    /\ encOp' = [Called("merge", FALSE, max_index) EXCEPT !.lost = lost_index]
    /\ UNCHANGED ret
    /\ UNCHANGED <<cacheVars, callVars, orderVars, reqVars, encDesc,
                 taskVars, mgrVars>>

\* the lost ranges a peer may report
LostRanges == {<<>>, <<[start |-> 0, end |-> 1]>>}

NextEncoder ==
    \/ \E buf_small \in BOOLEAN : next_piece(buf_small)
    \/ \E s \in FetchSlots, result \in {"Ok", "Io", "InvalidInput"} :
           async_next_piece(s, result)
    \/ reset
    \/ \E max_index \in Indices, lost_index \in LostRanges :
           merge(max_index, lost_index)

SpecEncoder == InitUpload /\ [][NextEncoder]_vars

\* a cache in which every piece is committed, and a new encoder on it
InitComplete ==
    /\ InitUpload
    /\ indices.committed = Indices

\* the encoder on a complete cache whose asynchronous reads succeed
NextEncoderLive ==
    \/ \E buf_small \in BOOLEAN : next_piece(buf_small)
    \/ \E s \in FetchSlots : async_next_piece(s, "Ok")
    \/ reset
    \/ \E max_index \in Indices, lost_index \in LostRanges :
           merge(max_index, lost_index)

\* a next_piece call with room in buf that does not return an error
next_piece_served == next_piece(FALSE) /\ ret'.kind = "Ok"

\* every spawned async_next_piece task runs to its end, and the sender keeps
\* calling next_piece, with a usable buf and a readable storage again and again
FairEncoder ==
    /\ \A s \in FetchSlots : WF_vars(async_next_piece(s, "Ok"))
    /\ SF_vars(next_piece_served)

SpecEncoderLive == InitComplete /\ [][NextEncoderLive]_vars /\ FairEncoder

\* reads and existence waits on a cache some of whose pieces were received
NextRead ==
    \/ \E op \in TryReads, index \in Indices, reader \in {"Ok", "Io", "UnSupport"} :
           \E pos \in SeekOutcomes(index), n \in CountOutcomes(index) :
               try_read(op, index, reader, pos, n)
    \/ \E index \in Indices, timeout \in BOOLEAN : async_exists(index, timeout)
    \/ \E index \in Indices, timeout \in BOOLEAN, reader \in {"Ok", "Io"} :
           \E pos \in SeekOutcomes(index), n \in CountOutcomes(index) :
               async_read(index, timeout, reader, pos, n)

\* a cache some of whose pieces have been received
InitReceived ==
    /\ InitUpload
    /\ encDesc = DecoderDesc(1)

SpecRead == InitReceived /\ [][NextRead]_vars

\* ================================================================ ChunkTask
\* (src/component/cyfs-bdt/src/ndn/download/chunk.rs)

\* control_state()
ControlStateOf(cs) == IF cs = "Normal" THEN "Normal" ELSE "Canceled"

\* mutant: cancel leaves the control state as it was
ControlAfterCancel_Kept(cs) == cs

\* cancel: the control state after the locked section
ControlAfterCancel(cs) == "Canceled"

\* mutant: the control state is never matched as Normal
TakesWaiters_Never(cs) == FALSE

\* cancel: whether the waiters are taken out of the control state
TakesWaiters(cs) == cs = "Normal"

\* mutant: the task state is left as it was
TaskAfterCancel_Kept(ts) == ts

\* cancel: the task state after the locked section
TaskAfterCancel(ts) ==
    IF ts.state = "Downloading" THEN TaskError("UserCanceled") ELSE ts

\* mutant: the context is never deregistered
RemovesContext_Never(ts) == FALSE

\* cancel: whether (id, cache) is kept for remove_context
RemovesContext(ts) == ts.state = "Downloading"

\* mutant: the transferred waiters are dropped without being woken
WakeSet_None(some, taken) == {}

\* cancel: the waiters woken after the lock is released
WakeSet(some, taken) == IF some THEN taken ELSE {}

\* mutant: a waiter is registered whatever the control state is
RegistersWaiter_Always(cs) == TRUE

\* wait_user_canceled: whether a waiter is registered and awaited
RegistersWaiter(cs) == cs = "Normal"

\* mutant: the accessors delegate in every task state
Delegates_Always(ts) == TRUE

\* the accessors: whether the call is passed to the cache's downloader
Delegates(ts) == ts.state = "Downloading"

\* v is the value the downloader returns when it is called
calc_speed(ts, v) == IF Delegates(ts) THEN v ELSE 0
cur_speed(ts, v) == IF Delegates(ts) THEN v ELSE 0
history_speed(ts, v) == IF Delegates(ts) THEN v ELSE 0
drain_score(ts, v) == IF Delegates(ts) THEN v ELSE 0
on_drain(ts, v) == IF Delegates(ts) THEN v ELSE 0

AccessorNames ==
    {"calc_speed", "cur_speed", "history_speed", "drain_score", "on_drain"}

AccessorValue(name, ts, v) ==
    CASE name = "calc_speed" -> calc_speed(ts, v)
      [] name = "cur_speed" -> cur_speed(ts, v)
      [] name = "history_speed" -> history_speed(ts, v)
      [] name = "drain_score" -> drain_score(ts, v)
      [] name = "on_drain" -> on_drain(ts, v)

DownloaderValues == 0 .. MaxSpeed

\* cancel, the section under the state lock; viaDrop: called by the drop of
\* the ChunkTaskReader
cancel_locked(t, viaDrop) ==
    LET isFirst == control_state = "Normal"
        some == TakesWaiters(control_state)
        moved == transfer(waiters)
    IN
    /\ tcall[t].pc = "idle"
    /\ tcall' = [tcall EXCEPT ![t] =
                    [pc |-> "wake", op |-> "cancel", some |-> some,
                     taken |-> IF some THEN moved.taken ELSE {},
                     cancel |-> RemovesContext(task_state),
                     first |-> isFirst, drop |-> viaDrop, ret |-> "none"]]
    /\ IF some
       THEN /\ waiters' = moved.left
            /\ control_state' = ControlAfterCancel(control_state)
       ELSE UNCHANGED <<waiters, control_state>>
    /\ task_state' = TaskAfterCancel(task_state)
    /\ firstCancel' = IF isFirst /\ firstCancel.by = 0
                      THEN [firstCancel EXCEPT !.by = t]
                      ELSE firstCancel
    /\ UNCHANGED <<contexts, woken, removes, lastWait, lastAcc>>

\* ChunkTask::cancel called on a clone of the task
cancel(t) ==
    /\ cancel_locked(t, FALSE)
    /\ UNCHANGED taskReader
    /\ UNCHANGED <<cacheVars, callVars, orderVars, reqVars, encVars, mgrVars>>

\* Drop for ChunkTaskReader: self.0.task().cancel()
drop_reader(t) ==
    /\ taskReader = "held"
    /\ cancel_locked(t, TRUE)
    /\ taskReader' = "dropping"
    /\ UNCHANGED <<cacheVars, callVars, orderVars, reqVars, encVars, mgrVars>>

\* cancel: waiters.wake()
cancel_wake(t) ==
    /\ tcall[t].pc = "wake"
    /\ woken' = [w \in TaskThreads |->
                   IF w \in WakeSet(tcall[t].some, tcall[t].taken)
                   THEN Min(woken[w] + 1, 2) ELSE woken[w]]
    /\ tcall' = [tcall EXCEPT ![t].pc = "remove"]
    /\ UNCHANGED <<control_state, waiters, task_state, contexts, removes,
                   firstCancel, lastWait, lastAcc, taskReader>>
    /\ UNCHANGED <<cacheVars, callVars, orderVars, reqVars, encVars, mgrVars>>

\* cancel: remove_context, then the return of Ok(Canceled)
cancel_remove(t) ==
    /\ tcall[t].pc = "remove"
    /\ IF tcall[t].cancel
       THEN /\ contexts' = contexts \ {TaskContext}
            /\ removes' = Min(removes + 1, 2)
       ELSE UNCHANGED <<contexts, removes>>
    /\ tcall' = [tcall EXCEPT ![t] =
                    [IdleTaskCall EXCEPT !.op = "cancel", !.ret = "Canceled",
                                         !.first = tcall[t].first,
                                         !.drop = tcall[t].drop]]
    /\ firstCancel' = IF firstCancel.by = t /\ tcall[t].first
                      THEN [firstCancel EXCEPT !.returned = TRUE,
                                               !.ret = "Canceled"]
                      ELSE firstCancel
    /\ taskReader' = IF tcall[t].drop THEN "dropped" ELSE taskReader
    /\ UNCHANGED <<control_state, waiters, task_state, woken, lastWait, lastAcc>>
    /\ UNCHANGED <<cacheVars, callVars, orderVars, reqVars, encVars, mgrVars>>

\* wait_user_canceled up to the await: a waiter is registered under the state
\* lock, or the call returns UserCanceled at once
wait_user_canceled(t) ==
    /\ tcall[t].pc = "idle"
    /\ IF RegistersWaiter(control_state)
       THEN /\ waiters' = new_waiter(waiters, t)
            /\ tcall' = [tcall EXCEPT ![t] =
                            [IdleTaskCall EXCEPT !.pc = "waiting", !.op = "wait"]]
            /\ lastWait' = [lastWait EXCEPT ![t].registered = TRUE]
       ELSE /\ tcall' = [tcall EXCEPT ![t] =
                            [IdleTaskCall EXCEPT !.op = "wait",
                                                 !.ret = "UserCanceled"]]
            /\ lastWait' = [lastWait EXCEPT ![t].immediate = TRUE]
            /\ UNCHANGED waiters
    /\ UNCHANGED <<control_state, task_state, contexts, woken, removes,
                   firstCancel, lastAcc, taskReader>>
    /\ UNCHANGED <<cacheVars, callVars, orderVars, reqVars, encVars, mgrVars>>

\* wait_user_canceled: StateWaiter::wait completes once the waiter was woken
wait_return(t) ==
    /\ tcall[t].pc = "waiting"
    /\ woken[t] > 0
    /\ tcall' = [tcall EXCEPT ![t].pc = "idle", ![t].ret = "UserCanceled"]
    /\ lastWait' = [lastWait EXCEPT ![t].woken = TRUE]
    /\ UNCHANGED <<control_state, waiters, task_state, contexts, woken, removes,
                   firstCancel, lastAcc, taskReader>>
    /\ UNCHANGED <<cacheVars, callVars, orderVars, reqVars, encVars, mgrVars>>

\* calc_speed / cur_speed / history_speed / drain_score / on_drain
accessor(name, v) ==
    /\ lastAcc' = [name |-> name, state |-> task_state, value |-> v,
                   delegated |-> Delegates(task_state),
                   ret |-> AccessorValue(name, task_state, v)]
    /\ UNCHANGED <<control_state, waiters, task_state, contexts, tcall, woken,
                   removes, firstCancel, lastWait, taskReader>>
    /\ UNCHANGED <<cacheVars, callVars, orderVars, reqVars, encVars, mgrVars>>

NextTask ==
    \/ \E t \in Cancelers : cancel(t)
    \/ \E t \in Cancelers : drop_reader(t)
    \/ \E t \in Cancelers : cancel_wake(t)
    \/ \E t \in Cancelers : cancel_remove(t)
    \/ \E t \in WaitThreads : wait_user_canceled(t)
    \/ \E t \in WaitThreads : wait_return(t)

\* the accessors called while the task is being canceled
NextAccessor ==
    \/ \E t \in Cancelers : cancel(t)
    \/ \E t \in Cancelers : cancel_wake(t)
    \/ \E t \in Cancelers : cancel_remove(t)
    \/ \E name \in AccessorNames, v \in DownloaderValues : accessor(name, v)

SpecTask == InitDownload /\ [][NextTask]_vars

\* a cancel call that holds the transferred waiters goes on to wake them and
\* to return, and a woken waiter is scheduled again
FairTask ==
    /\ \A t \in Cancelers : WF_vars(cancel_wake(t)) /\ WF_vars(cancel_remove(t))
    /\ \A t \in WaitThreads : WF_vars(wait_return(t))

SpecTaskLive == InitDownload /\ [][NextTask]_vars /\ FairTask

SpecAccessor == InitDownload /\ [][NextAccessor]_vars

\* =========================================================== ChannelManager
\* (src/component/cyfs-bdt/src/ndn/channel/manager.rs)

\* channel_of
channel_of(remote) == remote \in DOMAIN entries

\* mutant: the seed is the whole historical average
InitialSpeed_Undivided(avg, len) == avg

\* create_channel: initial speed of a new channel
InitialSpeed(avg, len) == avg \div (len + 1)

\* Channel::new: the channel of `remote`, the serial-th constructed for it
NewChannel(remote, serial, initial_download_speed, initial_upload_speed, len) ==
    [id |-> <<remote, serial>>,
     download_history_speed |-> NewHistorySpeed(initial_download_speed),
     upload_history_speed |-> NewHistorySpeed(initial_upload_speed),
     len |-> len]

\* mutant: the registry is not consulted before a channel is constructed
Registered_Ignored(remote) == FALSE

\* create_channel: channels.entries.get(&remote)
Registered(remote) == remote \in DOMAIN entries

\* mutant: the map is rebuilt with the new entry alone
insert_Alone(remote, channel) == [p \in {remote} |-> channel]

\* channels.entries.insert(remote, channel)
insert(remote, channel) ==
    [p \in DOMAIN entries \cup {remote} |->
        IF p = remote THEN channel ELSE entries[p]]

\* recv_command: `self.0.command_tunnel.recv_v().await` and the match on its
\* result; an error, like an empty batch, leads to the next iteration
recv_v(result) ==
    /\ rloop.pc = "recv"
    /\ rloop' = [pc |-> IF result.ok /\ result.datagrams # <<>>
                        THEN "datagram" ELSE "recv",
                 batch |-> result.datagrams,
                 got |-> result.datagrams,
                 routed |-> <<>>,
                 last |-> IF result.ok THEN "Ok" ELSE "Err",
                 iter |-> (rloop.iter + 1) % 2]
    /\ UNCHANGED <<entries, download_history_speed, download_cur_speed,
                   upload_history_speed, upload_cur_speed, mcall, constructed,
                   sched, lookup>>
    /\ UNCHANGED <<cacheVars, callVars, orderVars, reqVars, encVars, taskVars>>

\* recv_command, the datagram at the head of the batch, from `remote`:
\* channel_of, and for an unknown peer tunnel_manager().container_of(remote)
\* .unwrap(); found: whether container_of returns Some
recv_command(remote, found) ==
    /\ rloop.pc = "datagram"
    /\ remote = Head(rloop.batch).source
    /\ mcall[0].pc = "idle"
    /\ IF channel_of(remote)
       THEN /\ mcall' = [mcall EXCEPT ![0] =
                           [IdleCreate EXCEPT !.peer = remote, !.kind = "Ok",
                                              !.channel = entries[remote].id,
                                              !.existed = TRUE]]
            /\ rloop' = [rloop EXCEPT !.pc = "channel"]
       ELSE IF found
       THEN /\ mcall' = [mcall EXCEPT ![0] =
                           [IdleCreate EXCEPT !.pc = "called", !.peer = remote]]
            /\ rloop' = [rloop EXCEPT !.pc = "create"]
       ELSE \* unwrap of None
            /\ mcall' = [mcall EXCEPT ![0] = IdleCreate]
            /\ rloop' = [rloop EXCEPT !.pc = "panicked"]
    /\ UNCHANGED <<entries, download_history_speed, download_cur_speed,
                   upload_history_speed, upload_cur_speed, constructed, sched,
                   lookup>>
    /\ UNCHANGED <<cacheVars, callVars, orderVars, reqVars, encVars, taskVars>>

\* create_channel up to the lock: tunnel_manager().create_container(remote)?;
\* in the receive loop (c = 0) the error is unwrapped
create_container(c, remote, ok) ==
    /\ \/ c # 0 /\ mcall[c].pc = "idle"
       \/ c = 0 /\ mcall[c].pc = "called" /\ mcall[c].peer = remote
    /\ IF ok
       THEN mcall' = [mcall EXCEPT ![c] =
                        [IdleCreate EXCEPT !.pc = "container", !.peer = remote]]
       ELSE mcall' = [mcall EXCEPT ![c] =
                        [IdleCreate EXCEPT !.peer = remote, !.kind = "Err"]]
    /\ rloop' = IF c = 0 /\ ~ok THEN [rloop EXCEPT !.pc = "panicked"] ELSE rloop
    /\ UNCHANGED <<entries, download_history_speed, download_cur_speed,
                   upload_history_speed, upload_cur_speed, constructed, sched,
                   lookup>>
    /\ UNCHANGED <<cacheVars, callVars, orderVars, reqVars, encVars, taskVars>>

\* create_channel, the section under the channels lock
create_channel(c) ==
    LET remote == mcall[c].peer
        len == Cardinality(DOMAIN entries)
        channel == NewChannel(remote, constructed[remote] + 1,
                     InitialSpeed(average(download_history_speed), len),
                     InitialSpeed(average(upload_history_speed), len),
                     len)
    IN
    /\ mcall[c].pc = "container"
    /\ IF Registered(remote)
       THEN /\ mcall' = [mcall EXCEPT ![c].pc = "idle", ![c].kind = "Ok",
                                      ![c].channel = entries[remote].id,
                                      ![c].existed = TRUE]
            /\ UNCHANGED <<entries, constructed>>
       ELSE /\ entries' = insert(remote, channel)
            /\ constructed' = [constructed EXCEPT ![remote] = Min(@ + 1, 2)]
            /\ mcall' = [mcall EXCEPT ![c].pc = "idle", ![c].kind = "Ok",
                                      ![c].channel = channel.id,
                                      ![c].existed = remote \in DOMAIN entries,
                                      ![c].changed = TRUE]
    /\ rloop' = IF c = 0 THEN [rloop EXCEPT !.pc = "channel"] ELSE rloop
    /\ UNCHANGED <<download_history_speed, download_cur_speed,
                   upload_history_speed, upload_cur_speed, sched, lookup>>
    /\ UNCHANGED <<cacheVars, callVars, orderVars, reqVars, encVars, taskVars>>

\* what Channel::on_datagram may return for a datagram
DatagramResults(datagram) ==
    IF datagram.malformed THEN {"InvalidData"} ELSE {"Ok", "InvalidData"}

\* recv_command: `let _ = channel.on_datagram(datagram)`, and the step of the
\* for loop
on_datagram(result) ==
    /\ rloop.pc = "channel"
    /\ result \in DatagramResults(Head(rloop.batch))
    /\ rloop' = [rloop EXCEPT
                   !.routed = Append(@, [channel |-> mcall[0].channel,
                                         result |-> result]),
                   !.batch = Tail(@),
                   !.pc = IF Tail(rloop.batch) = <<>> THEN "recv" ELSE "datagram"]
    /\ UNCHANGED <<entries, download_history_speed, download_cur_speed,
                   upload_history_speed, upload_cur_speed, mcall, constructed,
                   sched, lookup>>
    /\ UNCHANGED <<cacheVars, callVars, orderVars, reqVars, encVars, taskVars>>

\* a call of channel_of by a user of the manager
channel_of_call(remote) ==
    /\ lookup' = IF channel_of(remote)
                 THEN [op |-> "channel_of", peer |-> remote, kind |-> "Some",
                       code |-> "none", channel |-> entries[remote].id]
                 ELSE [op |-> "channel_of", peer |-> remote, kind |-> "None",
                       code |-> "none", channel |-> <<0, 0>>]
    /\ UNCHANGED <<entries, download_history_speed, download_cur_speed,
                   upload_history_speed, upload_cur_speed, mcall, constructed,
                   sched, rloop>>
    /\ UNCHANGED <<cacheVars, callVars, orderVars, reqVars, encVars, taskVars>>

\* mutant: the channel's result is returned although no channel was found
RawDataResult_Forwarded(found, result) == result

\* on_raw_data: `channel_of(..).ok_or_else(|| NotFound)?`, then the result of
\* channel.on_raw_data
RawDataResult(found, result) == IF found THEN result ELSE "NotFound"

\* on_raw_data for a tunnel whose remote is `remote`; result: what the
\* channel's on_raw_data returns
on_raw_data(remote, result) ==
    LET code == RawDataResult(channel_of(remote), result)
    IN
    /\ lookup' = [op |-> "on_raw_data", peer |-> remote,
                  kind |-> IF code = "Ok" THEN "Ok" ELSE "Err",
                  code |-> code,
                  channel |-> IF channel_of(remote) THEN entries[remote].id
                                                    ELSE <<0, 0>>]
    /\ UNCHANGED <<entries, download_history_speed, download_cur_speed,
                   upload_history_speed, upload_cur_speed, mcall, constructed,
                   sched, rloop>>
    /\ UNCHANGED <<cacheVars, callVars, orderVars, reqVars, encVars, taskVars>>

\* on_time_escape(now): the channels are collected under the read lock, and
\* Channel::on_time_escape is called on each
on_time_escape ==
    /\ lookup' = [op |-> "on_time_escape", peer |-> Cardinality(DOMAIN entries),
                  kind |-> "none", code |-> "none", channel |-> <<0, 0>>]
    /\ UNCHANGED <<entries, download_history_speed, download_cur_speed,
                   upload_history_speed, upload_cur_speed, mcall, constructed,
                   sched, rloop>>
    /\ UNCHANGED <<cacheVars, callVars, orderVars, reqVars, encVars, taskVars>>

RECURSIVE SumOver(_, _)
\* the loop over channels.entries.values(): sum of f (the speeds and counts
\* of the model stay far below the width of u32)
SumOver(f, S) ==
    IF S = {} THEN 0
    ELSE LET p == CHOOSE q \in S : TRUE
         IN f[p] + SumOver(f, S \ {p})

\* mutant: the history is fed a sample in every tick
HistorySample_Forced(session_count, speed) == Sample(speed)

\* on_schedule: the Option passed to HistorySpeed::update
HistorySample(session_count, speed) ==
    IF session_count > 0 THEN Sample(speed) ELSE NoSample

\* mutant: the aggregate keeps the larger of the old and the new value
CurSpeed_Max(old, sum) == IF old > sum THEN old ELSE sum

\* on_schedule: channels.download_cur_speed = download_cur_speed
CurSpeed(old, sum) == sum

\* what a channel reports in one tick: its session counts and the speeds
\* calc_speed returns
ChannelReports ==
    {r \in [download_session_count : SessionCounts,
            upload_session_count : SessionCounts,
            download : {0, MaxSpeed}, upload : {0, MaxSpeed}] :
        /\ r.download \in ChannelSpeeds(r.download_session_count)
        /\ r.upload \in ChannelSpeeds(r.upload_session_count)}

\* on_schedule(when); reports[p] is what the channel of p returns from
\* calc_speed, download_session_count and upload_session_count
on_schedule(reports) ==
    LET D == DOMAIN entries
        download_sum == SumOver([p \in D |-> reports[p].download], D)
        upload_sum == SumOver([p \in D |-> reports[p].upload], D)
        download_session_count ==
            SumOver([p \in D |-> reports[p].download_session_count], D)
        upload_session_count ==
            SumOver([p \in D |-> reports[p].upload_session_count], D)
    IN
    /\ download_cur_speed' = CurSpeed(download_cur_speed, download_sum)
    /\ upload_cur_speed' = CurSpeed(upload_cur_speed, upload_sum)
    /\ download_history_speed' =
           update(download_history_speed,
                  HistorySample(download_session_count, download_sum))
    /\ upload_history_speed' =
           update(upload_history_speed,
                  HistorySample(upload_session_count, upload_sum))
    /\ sched' = [ticks |-> (sched.ticks + 1) % 2,
                 download_sum |-> download_sum, upload_sum |-> upload_sum,
                 download_active |-> download_session_count > 0,
                 upload_active |-> upload_session_count > 0]
    /\ UNCHANGED <<entries, mcall, constructed, rloop, lookup>>
    /\ UNCHANGED <<cacheVars, callVars, orderVars, reqVars, encVars, taskVars>>

\* the registry under concurrent create_channel calls
NextManager ==
    \/ \E remote \in Peers :
           recv_v(RecvOk(<<[source |-> remote, malformed |-> FALSE]>>))
    \/ \E remote \in Peers, found \in BOOLEAN : recv_command(remote, found)
    \/ \E c \in Creators, remote \in Peers, ok \in BOOLEAN :
           create_container(c, remote, ok)
    \/ \E c \in Creators : create_channel(c)
    \/ on_datagram("Ok")

SpecManager == InitChannels /\ [][NextManager]_vars

\* the receive loop, with one other caller of create_channel
NextRecv ==
    \/ \E result \in {RecvErr} \cup {RecvOk(b) : b \in Batches} : recv_v(result)
    \/ \E remote \in Peers, found \in BOOLEAN : recv_command(remote, found)
    \/ \E c \in {0, 1}, remote \in Peers, ok \in BOOLEAN :
           create_container(c, remote, ok)
    \/ \E c \in {0, 1} : create_channel(c)
    \/ \E result \in {"Ok", "InvalidData"} : on_datagram(result)

SpecRecv == InitChannels /\ [][NextRecv]_vars

\* lookups, between the creations of channels
NextLookup ==
    \/ \E remote \in Peers : create_container(1, remote, TRUE)
    \/ create_channel(1)
    \/ \E remote \in Peers : channel_of_call(remote)
    \/ \E remote \in Peers, result \in {"Ok", "InvalidData"} :
           on_raw_data(remote, result)

SpecLookup == InitChannels /\ [][NextLookup]_vars

\* the speed aggregates: the scheduler's ticks, and channels created between
\* the ticks
NextSchedule ==
    \/ \E remote \in 1 .. Min(NumPeers, Cardinality(DOMAIN entries) + 1) :
           create_container(1, remote, TRUE)
    \/ create_channel(1)
    \/ \E reports \in [DOMAIN entries -> ChannelReports] : on_schedule(reports)

SpecSchedule == InitChannels /\ [][NextSchedule]_vars

\* every operation of the manager: the receive loop, callers of create_channel,
\* lookups, and the scheduler's ticks, in which every channel is at full speed
NextRegistry ==
    \/ \E remote \in Peers :
           recv_v(RecvOk(<<[source |-> remote, malformed |-> FALSE]>>))
    \/ \E remote \in Peers, found \in BOOLEAN : recv_command(remote, found)
    \/ \E c \in Creators, remote \in Peers, ok \in BOOLEAN :
           create_container(c, remote, ok)
    \/ \E c \in Creators : create_channel(c)
    \/ on_datagram("Ok")
    \/ \E remote \in Peers : channel_of_call(remote)
    \/ \E remote \in Peers : on_raw_data(remote, "Ok")
    \/ \E r \in {x \in ChannelReports : x.download = MaxSpeed /\ x.upload = MaxSpeed} :
           on_schedule([p \in DOMAIN entries |-> r])
    \/ on_time_escape

SpecRegistry == InitChannels /\ [][NextRegistry]_vars

\* ================================================================ claims
InWindow(c) ==
    /\ call[c].index >= DecoderDesc(call[c].dec).start
    /\ call[c].index < DecoderDesc(call[c].dec).end

\* The calls for index i that ran concurrently while i was being seen for the
\* first time: the call that reserved i and every call that reached try_push
\* while another call for i was still inside push_piece_data.
ConcurrentGroup(i) ==
    {c \in Callers : /\ call[c].pc # "idle"
                     /\ call[c].index = i
                     /\ InWindow(c)
                     /\ (call[c].won \/ call[c].during)}

GroupDone(i) ==
    /\ Cardinality(ConcurrentGroup(i)) >= 2
    /\ \A c \in ConcurrentGroup(i) : call[c].pc = "done"

LosesWithoutWrite(c) ==
    /\ call[c].result = Ok(TRUE, TRUE, FALSE)
    /\ ~call[c].wrote
    /\ ~call[c].commit

\* C1 as stated: of N >= 2 concurrent push_piece_data calls for one index never
\* seen before, exactly one performs the storage write (seek + write) and every
\* other call returns exists=true without writing.
C1_ExactlyOneWrites ==
    \A i \in Indices :
        GroupDone(i) =>
            \E w \in ConcurrentGroup(i) :
                /\ call[w].wrote
                /\ \A c \in ConcurrentGroup(i) \ {w} : LosesWithoutWrite(c)

\* C1 amended: exactly one of the calls reserves the index and only that call
\* can perform the storage write; it performs it unless obtaining the writer or
\* the seek fails, and then returns that error.  Every other call returns
\* exists=true without performing any storage write.
C1_ExclusiveReservation ==
    \A i \in Indices :
        GroupDone(i) =>
            \E w \in ConcurrentGroup(i) :
                /\ call[w].won
                /\ call[w].wrote \/ call[w].result.kind = "Err"
                /\ \A c \in ConcurrentGroup(i) \ {w} : LosesWithoutWrite(c)

C1_Witness ==
    \E i \in Indices :
        /\ GroupDone(i)
        /\ \E w \in ConcurrentGroup(i) :
             call[w].won /\ call[w].wrote /\ call[w].result.kind = "Ok"
        /\ \E c \in ConcurrentGroup(i) : call[c].during /\ LosesWithoutWrite(c)

\* c1 is the first and c2 the second push of the same PieceData.
SamePieceTwice(c1, c2) ==
    /\ c1 # c2
    /\ call[c1].pc = "done" /\ call[c2].pc = "done"
    /\ call[c1].index = call[c2].index
    /\ InWindow(c1) /\ InWindow(c2)
    /\ call[c1].won

\* C2 as stated: the same PieceData pushed twice (sequentially or concurrently)
\* is written to storage exactly once; both calls return Ok, the second with
\* exists=true and without changing the committed indices.
C2_IdempotentBothOk ==
    \A c1, c2 \in Callers :
        SamePieceTwice(c1, c2) =>
            /\ call[c1].result.kind = "Ok"
            /\ call[c1].wrote
            /\ LosesWithoutWrite(c2)

\* C2 amended: the second push of the same PieceData returns Ok with
\* exists=true, writes nothing and leaves the committed indices unchanged; the
\* first push performs the one write and returns Ok provided its storage
\* operations (writer, seek, write) succeed, and returns their error otherwise.
C2_IdempotentReceipt ==
    \A c1, c2 \in Callers :
        SamePieceTwice(c1, c2) =>
            /\ LosesWithoutWrite(c2)
            /\ call[c1].result.kind \in {"Ok", "Err"}
            /\ call[c1].result.kind = "Ok" =>
                   call[c1].wrote /\ call[c1].commit /\ pushed(call[c1].result)

C2_Witness ==
    \E c1, c2 \in Callers :
        /\ SamePieceTwice(c1, c2)
        /\ call[c1].result.kind = "Ok" /\ call[c1].wrote
        /\ ~call[c2].during
        /\ LosesWithoutWrite(c2)

\* C3: a decoder call returns finished=true when it commits the last index of
\* its window [a,b) that was missing, and no call returns finished=true while
\* an index of its decoder's window is uncommitted.
C3_WindowCompletion ==
    \A c \in Callers :
        call[c].pc = "done" =>
            /\ call[c].last => call[c].result = Ok(TRUE, FALSE, TRUE)
            /\ call[c].result.finished =>
                   Window(call[c].dec) \subseteq indices.committed

C3_Witness ==
    \E c \in Callers :
        /\ call[c].pc = "done" /\ call[c].dec = 1
        /\ call[c].last /\ call[c].result.finished
        /\ \E o \in Callers \ {c} :
             /\ call[o].pc = "done" /\ call[o].dec = 1 /\ call[o].commit
             /\ ~call[o].result.finished

\* C4: a piece whose index is < start or >= end of the decoder's window gets
\* {valid:false, exists:false, finished:false} at once, and the call makes no
\* reservation, no storage write and no commit.
C4_OutOfWindowRejected ==
    \A c \in Callers :
        (call[c].pc # "idle" /\ ~InWindow(c)) =>
            /\ call[c].pc = "done"
            /\ call[c].result = Ok(FALSE, FALSE, FALSE)
            /\ ~call[c].won /\ ~call[c].wrote /\ ~call[c].commit

C4_Witness ==
    \E c1, c2 \in Callers :
        /\ call[c1].pc = "done" /\ call[c1].dec = 2 /\ call[c1].index = 0
        /\ call[c2].pc = "done" /\ call[c2].dec = 2
        /\ call[c2].index = DecoderDesc(2).end
        /\ call[c1].result = Ok(FALSE, FALSE, FALSE)
        /\ call[c2].result = Ok(FALSE, FALSE, FALSE)

\* C5: in every reachable state, failed and unfinished pushes included, an
\* index is committed only if a write of exactly its range length at its range
\* start completed, and the storage then holds the piece's payload.
C5_CommittedOnlyAfterWrite ==
    \A i \in Indices :
        exists(i) =>
            /\ i \in fullWrites
            /\ \A b \in Bytes :
                 (stream_piece_range(i).start <= b /\ b < stream_piece_range(i).end)
                     => storage[b] = ChunkByte(b)

C5_Witness ==
    /\ \E i \in Indices : exists(i)
    /\ \E c \in Callers :
         /\ call[c].pc = "done" /\ call[c].wrote
         /\ call[c].result = Err("InvalidInput")
         /\ ~exists(call[c].index)

\* the indices of window `desc` that queue q has not committed
MissingOf(q, desc) == {i \in desc.start .. (desc.end - 1) : i \notin q.committed}

CoveredBy(ranges) ==
    UNION {ranges[k].start .. (ranges[k].end - 1) : k \in 1 .. Len(ranges)}

\* C6: for any window and any set of committed indices, require_index returns
\* exactly the missing sub-ranges of the window (non-empty, ascending, maximal)
\* and returns None iff every index of the window is committed; window 0..10
\* with {0,1,2,5,6,9} committed yields the ranges 3..5 and 7..9.
C6_RequireGaps ==
    /\ reqResult.done =>
         LET r == reqResult.res
             missing == MissingOf(indices, reqDesc)
         IN  /\ ~r.some <=> missing = {}
             /\ CoveredBy(r.ranges) = missing
             /\ \A k \in 1 .. Len(r.ranges) : r.ranges[k].start < r.ranges[k].end
             /\ \A k \in 1 .. (Len(r.ranges) - 1) :
                    r.ranges[k].end < r.ranges[k + 1].start
             /\ r.some => r.next \in missing
    /\ require_index([reserved |-> {}, committed |-> {0, 1, 2, 5, 6, 9}],
                     [start |-> 0, end |-> 10, step |-> 1]).ranges
         = <<[start |-> 3, end |-> 5], [start |-> 7, end |-> 9]>>

C6_Witness ==
    /\ reqResult.done
    /\ Len(reqResult.res.ranges) >= 2
    /\ indices.committed # {}

AllPushed == order # <<>> /\ script = <<>> /\ call[1].pc = "done"

\* the payload pushed for piece i
PayloadOf(i) ==
    [k \in 1 .. (stream_piece_range(i).end - stream_piece_range(i).start) |->
        ChunkByte(stream_piece_range(i).start + k - 1)]

C8_StaleFetchDiscarded ==
    /\ pending.state = "Waiting" => ~pending.stale
    /\ \A k \in 1 .. Len(emitted) : ~emitted[k].stale

\* C9 as stated: a StreamEncoder has at most one asynchronous fetch that was
\* dispatched and has not yet completed.
C9_AtMostOneFetch == Cardinality(InFlight) <= 1

\* C10 as stated: between two reset/merge calls the indices next_piece emits
\* follow the Outcome cursor order start, start+step, ...: none twice, none
\* skipped, for pieces read synchronously and for pieces fetched.
C10_EmittedInCursorOrder ==
    /\ Len(emitted) <= Len(outcome_reset(encDesc))
    /\ \A k \in 1 .. Len(emitted) :
           emitted[k].index = outcome_reset(encDesc)[k]

\* ---------------------------------------------------------------- ChunkTask
\* a cancel call that found the control state already Canceled takes a step
SecondCancelStep(t) ==
    /\ tcall'[t] # tcall[t]
    /\ tcall'[t].op = "cancel"
    /\ ~tcall'[t].first

TaskUntouched ==
    UNCHANGED <<control_state, waiters, task_state, woken, contexts, removes>>

\* C11: once a cancel call has gone through its locked section,
\* control_state() is Canceled in every later state; a cancel call that finds
\* the task canceled returns Canceled and none of its steps changes the control
\* state, the task state, the waiters woken or the registered contexts, and
\* remove_context is called at most once for the task.
C11_CancelFinality ==
    [][ /\ firstCancel'.by # 0 => ControlStateOf(control_state') = "Canceled"
        /\ ControlStateOf(control_state) = "Canceled"
               => ControlStateOf(control_state') = "Canceled"
        /\ removes' <= 1
        /\ \A t \in Cancelers :
               SecondCancelStep(t) =>
                   /\ TaskUntouched
                   /\ tcall'[t].pc = "idle" => tcall'[t].ret = "Canceled"
      ]_vars

C11_Witness ==
    /\ firstCancel.returned
    /\ removes = 1
    /\ \E t \in Cancelers :
         /\ tcall[t].op = "cancel" /\ tcall[t].pc = "idle"
         /\ ~tcall[t].first /\ tcall[t].ret = "Canceled"
    /\ \E w \in WaitThreads : woken[w] = 1

\* the cancel calls that hold the waiter of w and have not woken it yet
Holders(w) ==
    {t \in Cancelers : tcall[t].pc = "wake" /\ tcall[t].some /\ w \in tcall[t].taken}

\* C12: a waiter registered by wait_user_canceled is never woken twice, only
\* registered waiters are woken, a registered waiter not yet woken is either
\* still in the StateWaiter of a Normal task or held by exactly one cancel call
\* that is about to wake it, and once the cancel call that took the waiters has
\* returned every registered waiter has been woken exactly once.
C12_WokenExactlyOnce ==
    /\ \A w \in TaskThreads : woken[w] <= 1
    /\ \A w \in TaskThreads : woken[w] = 1 => lastWait[w].registered
    /\ \A w \in WaitThreads :
           (lastWait[w].registered /\ woken[w] = 0) =>
               \/ control_state = "Normal" /\ w \in waiters /\ Holders(w) = {}
               \/ /\ control_state = "Canceled" /\ w \notin waiters
                  /\ Cardinality(Holders(w)) = 1
    /\ firstCancel.returned =>
           \A w \in WaitThreads : lastWait[w].registered => woken[w] = 1

C12_Witness ==
    /\ firstCancel.returned
    /\ \A w \in WaitThreads : lastWait[w].registered /\ woken[w] = 1
    /\ \E t \in Cancelers : tcall[t].op = "cancel" /\ ~tcall[t].first
    /\ \E t \in Cancelers : tcall[t].op = "cancel" /\ tcall[t].first

\* C13: after the first cancel call (the one that takes the state lock first
\* and finds the control state Normal) has returned, the control state is
\* Canceled, the task state is Error(UserCanceled), the id registered at
\* construction is no longer in the downloader's context while the other ids
\* still are, and the call returned Canceled.
C13_FirstCancelEffects ==
    firstCancel.returned =>
        /\ ControlStateOf(control_state) = "Canceled"
        /\ task_state = TaskError("UserCanceled")
        /\ TaskContext \notin contexts
        /\ OtherContext \in contexts
        /\ firstCancel.ret = "Canceled"

C13_Witness ==
    /\ firstCancel.returned
    /\ firstCancel.ret = "Canceled"
    /\ removes = 1
    /\ TaskContext \notin contexts

\* w is suspended in wait_user_canceled
Suspended(w) == tcall[w].pc = "waiting"

\* C14: wait_user_canceled does not return before cancel has been invoked; a
\* call made when the task is already canceled returns at once, so a suspended
\* call on a canceled task was registered before the cancel and has been or is
\* about to be woken; and a call suspended when cancel is invoked eventually
\* returns UserCanceled.
C14_WaitUntilCanceled ==
    /\ [](\A w \in WaitThreads :
            (lastWait[w].woken \/ lastWait[w].immediate) => firstCancel.by # 0)
    /\ [](\A w \in WaitThreads :
            (Suspended(w) /\ control_state = "Canceled") =>
                woken[w] > 0 \/ Holders(w) # {})
    /\ \A w \in WaitThreads :
            (Suspended(w) /\ firstCancel.by # 0)
                ~> (~Suspended(w) /\ lastWait[w].woken
                      /\ tcall[w].ret = "UserCanceled")

C14_Witness ==
    /\ \E w \in WaitThreads :
         lastWait[w].woken /\ ~Suspended(w) /\ tcall[w].ret = "UserCanceled"
    /\ \E w \in WaitThreads : lastWait[w].immediate /\ ~lastWait[w].registered

\* C15: each of calc_speed, cur_speed, history_speed, drain_score and on_drain
\* returns the downloader's value when the task state is Downloading, and
\* returns 0 without calling the downloader in every other task state.
C15_AccessorsDelegateWhileDownloading ==
    /\ lastAcc.name # "none" =>
           IF lastAcc.state = Downloading
           THEN lastAcc.delegated /\ lastAcc.ret = lastAcc.value
           ELSE ~lastAcc.delegated /\ lastAcc.ret = 0
    /\ \A name \in AccessorNames, v \in DownloaderValues :
           /\ AccessorValue(name, Downloading, v) = v
           /\ \A ts \in TaskStates \ {Downloading} :
                  ~Delegates(ts) /\ AccessorValue(name, ts, v) = 0

C15_Witness ==
    /\ lastAcc.name = "on_drain"
    /\ lastAcc.state = TaskError("UserCanceled")
    /\ lastAcc.value > 0
    /\ lastAcc.ret = 0

\* C16 as stated: once the drop of the ChunkTaskReader has returned, the
\* control state is Canceled, the task state is not Downloading and the
\* download context has been deregistered.
C16_DropCancels ==
    taskReader = "dropped" =>
        /\ ControlStateOf(control_state) = "Canceled"
        /\ task_state.state # "Downloading"
        /\ TaskContext \notin contexts

\* a cancel call made on a clone of the task took the transition and has not
\* reached remove_context yet
CancelUnderWay ==
    \E t \in Cancelers :
        /\ tcall[t].pc \in {"wake", "remove"}
        /\ tcall[t].first /\ tcall[t].cancel /\ ~tcall[t].drop

\* C16 amended: once the drop has returned, the control state is Canceled and
\* the task state is not Downloading; the download context has been
\* deregistered unless a cancel call that ran concurrently with the drop took
\* the transition and is still before its remove_context, and it has been
\* deregistered once that call has returned.
C16_DropCancelsOrCancelUnderWay ==
    taskReader = "dropped" =>
        /\ ControlStateOf(control_state) = "Canceled"
        /\ task_state.state # "Downloading"
        /\ TaskContext \notin contexts \/ CancelUnderWay
        /\ firstCancel.returned => TaskContext \notin contexts

C16_Witness ==
    /\ taskReader = "dropped"
    /\ \E t \in Cancelers : tcall[t].drop /\ tcall[t].first /\ tcall[t].pc = "idle"
    /\ TaskContext \notin contexts
    /\ task_state = TaskError("UserCanceled")

\* ----------------------------------------------------------- ChannelManager
\* the create_channel calls (and the receive loop's lookups) for p that returned
Returned(p) ==
    {c \in Creators : mcall[c].pc = "idle" /\ mcall[c].peer = p
                      /\ mcall[c].kind # "none"}

\* C17 as stated: for every peer, in every interleaving, exactly one Channel
\* is constructed and inserted, every call returns that Channel, and a call
\* for a registered peer leaves the registry unchanged.
C17_GetOrCreate ==
    \A p \in Peers :
        Returned(p) # {} =>
            /\ constructed[p] = 1
            /\ p \in DOMAIN entries
            /\ \A c \in Returned(p) :
                   /\ mcall[c].kind = "Ok"
                   /\ mcall[c].channel = entries[p].id
                   /\ mcall[c].existed => ~mcall[c].changed

\* C17 amended: for every peer at most one Channel is ever constructed, and it
\* is the one registered; every call for which create_container succeeds
\* returns that Channel, and a call for a registered peer leaves the registry
\* unchanged; a call for which create_container fails returns that error,
\* constructing nothing and leaving the registry unchanged.
C17_GetOrCreateUnlessContainerFails ==
    \A p \in Peers :
        /\ constructed[p] <= 1
        /\ p \in DOMAIN entries <=> constructed[p] = 1
        /\ p \in DOMAIN entries => entries[p].id = <<p, 1>>
        /\ \A c \in Returned(p) :
               /\ mcall[c].kind = "Ok" =>
                      /\ p \in DOMAIN entries
                      /\ mcall[c].channel = entries[p].id
                      /\ mcall[c].existed => ~mcall[c].changed
               /\ mcall[c].kind = "Err" => ~mcall[c].changed

C17_Witness ==
    \E p \in Peers :
        /\ mcall[0].peer = p /\ mcall[0].kind = "Ok" /\ mcall[0].pc = "idle"
        /\ \E c \in Creators \ {0} :
             /\ mcall[c].peer = p /\ mcall[c].kind = "Ok" /\ mcall[c].pc = "idle"
             /\ mcall[c].channel = mcall[0].channel
             /\ mcall[c].changed # mcall[0].changed
        /\ constructed[p] = 1

\* C18: a channel created while the registry holds len channels has its
\* download and upload HistorySpeed seeded with the manager's download and
\* upload history average at that moment, divided (integer division) by len + 1.
C18_InitialSpeedSeed ==
    [][ \A p \in Peers :
          (p \notin DOMAIN entries /\ p \in DOMAIN entries') =>
              /\ entries'[p].len = Cardinality(DOMAIN entries)
              /\ average(entries'[p].download_history_speed)
                     = average(download_history_speed) \div (entries'[p].len + 1)
              /\ average(entries'[p].upload_history_speed)
                     = average(upload_history_speed) \div (entries'[p].len + 1)
      ]_vars

C18_Witness ==
    \E p \in DOMAIN entries :
        /\ entries[p].len >= 1
        /\ average(entries[p].download_history_speed) >= 1
        /\ average(entries[p].upload_history_speed) = 0
        /\ average(download_history_speed) >= 2

TickStep == sched'.ticks # sched.ticks

\* C19: an on_schedule call sets each instantaneous aggregate to the sum of
\* the speeds the channels computed in that call, and updates each historical
\* estimator with that sum as a sample when some channel has a session of that
\* direction, and with no sample when none has.
C19_ScheduleAggregates ==
    [][ TickStep =>
          /\ download_cur_speed' = sched'.download_sum
          /\ upload_cur_speed' = sched'.upload_sum
          /\ download_history_speed' =
                 update(download_history_speed,
                        IF sched'.download_active
                        THEN Sample(sched'.download_sum) ELSE NoSample)
          /\ upload_history_speed' =
                 update(upload_history_speed,
                        IF sched'.upload_active
                        THEN Sample(sched'.upload_sum) ELSE NoSample)
      ]_vars

C19_Witness ==
    /\ sched.ticks = 1
    /\ download_cur_speed = MaxSpeed
    /\ download_history_speed.sample = Sample(MaxSpeed)
    /\ upload_cur_speed = 0
    /\ upload_history_speed.sample = NoSample
    /\ sched.download_active
    /\ ~sched.upload_active

C21_LoopNeverTerminates == rloop.pc # "panicked"

\* C22 as stated: once the loop is through with a successfully received batch,
\* every datagram of the batch has been handed, in order, to the Channel
\* registered for its source peer, whatever the channel returned for the
\* datagrams before it.
C22_EveryDatagramRouted ==
    rloop.pc \in {"recv", "panicked"} =>
        /\ Len(rloop.routed) = Len(rloop.got)
        /\ \A k \in 1 .. Len(rloop.routed) :
               /\ rloop.got[k].source \in DOMAIN entries
               /\ rloop.routed[k].channel = entries[rloop.got[k].source].id

\* C23: a channel_of or on_raw_data call leaves the registry as it was and
\* constructs no channel; channel_of returns the registered channel, or None
\* for a peer without one, and on_raw_data for a peer without a registered
\* channel returns the error NotFound.
C23_LookupsNeverCreate ==
    [][ lookup' # lookup =>
          /\ entries' = entries
          /\ constructed' = constructed
          /\ lookup'.op = "channel_of" =>
                 /\ lookup'.kind = "Some" <=> lookup'.peer \in DOMAIN entries
                 /\ lookup'.kind = "Some" =>
                        lookup'.channel = entries[lookup'.peer].id
                 /\ lookup'.kind # "Some" => lookup'.kind = "None"
          /\ (lookup'.op = "on_raw_data" /\ lookup'.peer \notin DOMAIN entries) =>
                 /\ lookup'.kind = "Err"
                 /\ lookup'.code = "NotFound"
      ]_vars

C23_Witness ==
    /\ lookup.op = "on_raw_data"
    /\ lookup.code = "NotFound"
    /\ lookup.peer \notin DOMAIN entries
    /\ DOMAIN entries # {}

\* ------------------------------------------------- ChunkStreamCache, again
\* C26 as stated: no two push_piece_data calls are at the same time between
\* obtaining the RawCache writer and finishing their write.
C26_WritesSerialized ==
    \A c1, c2 \in Callers :
        (c1 # c2 /\ call[c1].pc = "writer") => call[c2].pc # "writer"

\* the storage failed the call of c, or returned a position or a count that
\* does not match the piece's range
StorageFailed(c) ==
    \/ call[c].writer = "Err"
    \/ call[c].pos = -1
    \/ call[c].n = -1
Mismatch(c) ==
    LET range == stream_piece_range(call[c].index)
    IN  \/ call[c].pos >= 0 /\ call[c].pos # range.start
        \/ call[c].n >= 0 /\ call[c].n # range.end - range.start

\* the step in which the call of c meets the failure
FailingStep(c) ==
    /\ call[c].pc \in {"reserved", "writer"}
    /\ call'[c].index = call[c].index
    /\ StorageFailed(c)' \/ Mismatch(c)'

C24_AsyncExistsWaits ==
    rcall.op = "async_exists" =>
        \/ rcall.read.kind = "Ok" /\ exists(rcall.index)
        \/ rcall.read = ReadErr("NotFound") /\ rcall.timeout
        \/ rcall.read.kind = "Suspended" /\ ~exists(rcall.index)

\* C25 as stated: on a cache without its RawCache no push_piece_data,
\* sync_try_read or async_try_read call crashes, the reads return an error, and
\* once the push_piece_data calls are over no index is reserved or committed.
C25_NotInstalledIsAnError ==
    ~installed =>
        /\ \A c \in Callers : call[c].pc # "panicked"
        /\ rcall.op \in TryReads => rcall.read.kind = "Err"
        /\ (\A c \in Callers : call[c].pc \in {"idle", "done", "panicked"})
               => indices = NewIncomeIndexQueue

\* the storage returned a seek position or a byte count other than the range's
ReadMismatch ==
    LET range == stream_piece_range(rcall.index)
    IN  /\ rcall.reader = "Ok"
        /\ \/ rcall.pos >= 0 /\ rcall.pos # range.start
           \/ /\ rcall.pos = range.start
              /\ rcall.n >= 0 /\ rcall.n # range.end - range.start

\* the reader could not be opened, or the seek or the read failed
ReadFailure ==
    \/ rcall.reader # "Ok"
    \/ rcall.pos = -1
    \/ rcall.pos = stream_piece_range(rcall.index).start /\ rcall.n = -1

\* C28 as stated: sync_try_read and async_try_read return NotFound for an index
\* that is not committed, InvalidInput when the seek position or the byte count
\* differs from the piece's range, and otherwise the range length; the index
\* state is unchanged.
C28_TryReadOutcomes ==
    /\ [](rcall.op \in TryReads =>
            LET range == stream_piece_range(rcall.index)
            IN  /\ ~exists(rcall.index) => rcall.read = ReadErr("NotFound")
                /\ (exists(rcall.index) /\ ReadMismatch)
                       => rcall.read = ReadErr("InvalidInput")
                /\ (exists(rcall.index) /\ ~ReadMismatch)
                       => /\ rcall.read.kind = "Ok"
                          /\ rcall.read.len = range.end - range.start)
    /\ [][rcall' # rcall => indices' = indices]_vars

\* C28 amended: ... and when the reader cannot be opened, or the seek or the
\* read fails, they return that error; otherwise the range length.
C28_TryReadOutcomesOrReaderError ==
    /\ [](rcall.op \in TryReads =>
            LET range == stream_piece_range(rcall.index)
            IN  /\ ~exists(rcall.index) => rcall.read = ReadErr("NotFound")
                /\ (exists(rcall.index) /\ ReadMismatch)
                       => rcall.read = ReadErr("InvalidInput")
                /\ (exists(rcall.index) /\ ReadFailure)
                       => /\ rcall.read.kind = "Err"
                          /\ rcall.read.code =
                                 IF rcall.reader # "Ok" THEN rcall.reader ELSE "Io"
                /\ (exists(rcall.index) /\ ~ReadMismatch /\ ~ReadFailure)
                       => /\ rcall.read.kind = "Ok"
                          /\ rcall.read.len = range.end - range.start)
    /\ [][rcall' # rcall => indices' = indices]_vars

C28_Witness ==
    /\ rcall.op = "async_try_read"
    /\ ~exists(rcall.index)
    /\ rcall.reader = "Io"
    /\ rcall.read = ReadErr("NotFound")
    /\ indices.committed # {}

\* ------------------------------------------------- StreamEncoder, again
\* a next_piece call is made
PollStep == encOp' # encOp /\ encOp'.op = "next_piece"

\* a reset or merge call is made
RewindStep == encOp' # encOp /\ encOp'.op \in {"reset", "merge"}

\* C29: the pending state changes only from None to Pending in a next_piece
\* call whose synchronous read was refused with UnSupport, from Pending to
\* Waiting when a fetch of the pending piece completes, from Waiting to None in
\* a next_piece call, and from Pending or Waiting to None in a reset or merge
\* call; a next_piece call that finds Pending returns 0 and changes neither the
\* pending state nor the Outcome cursor.
C29_PendingTransitions ==
    [][ /\ pending' # pending =>
             \/ /\ pending.state = "None" /\ pending'.state = "Pending"
                /\ PollStep
                /\ ~syncRead
                /\ pending'.index = outcome_next(outIndices)
                /\ ret' = RetOk(0)
             \/ /\ pending.state = "Pending" /\ pending'.state = "Waiting"
                /\ encOp'.op = "async_next_piece"
                /\ encOp'.index = pending.index
                /\ pending'.index = pending.index
             \/ /\ pending.state = "Waiting" /\ pending' = PendingNone
                /\ PollStep
             \/ /\ pending.state \in {"Pending", "Waiting"}
                /\ pending' = PendingNone
                /\ RewindStep
        /\ (PollStep /\ pending.state = "Pending") =>
               /\ ret' = RetOk(0)
               /\ pending' = pending
               /\ outIndices' = outIndices
      ]_vars

C29_Witness ==
    /\ encOp.op = "next_piece"
    /\ encOp.from = "Pending"
    /\ pending.state = "Pending"
    /\ ret = RetOk(0)
    /\ emitted # <<>>

\* a next_piece call is made in state Waiting(desc, Ok(payload))
PollsFetched == PollStep /\ pending.state = "Waiting" /\ pending.result = "Ok"

\* C30 as stated: next_piece in state Waiting(desc, Ok(payload)) leaves the
\* encoder in None; when desc's index is the head of the cursor it pops exactly
\* that index and returns header length + payload length, otherwise it pops
\* nothing and returns 0.
C30_WaitingPickup ==
    [][ PollsFetched =>
          /\ pending' = PendingNone
          /\ IF pending.index = outcome_next(outIndices)
             THEN /\ outIndices' = Tail(outIndices)
                  /\ ret' = RetOk(HeaderLen
                                  + stream_piece_range(pending.index).end
                                  - stream_piece_range(pending.index).start)
             ELSE /\ outIndices' = outIndices
                  /\ emitted' = emitted
                  /\ ret' = RetOk(0)
      ]_vars

\* C30 amended: ... it pops exactly that index and returns header length +
\* payload length, or, when encode_header fails because buf has no room for
\* the header, the error of encode_header, the index having been popped; ...
C30_WaitingPickupOrHeaderError ==
    [][ PollsFetched =>
          /\ pending' = PendingNone
          /\ IF pending.index = outcome_next(outIndices)
             THEN /\ outIndices' = Tail(outIndices)
                  /\ IF encOp'.small
                     THEN ret'.kind = "Err" /\ emitted' = emitted
                     ELSE ret' = RetOk(HeaderLen
                                       + stream_piece_range(pending.index).end
                                       - stream_piece_range(pending.index).start)
             ELSE /\ outIndices' = outIndices
                  /\ emitted' = emitted
                  /\ ret' = RetOk(0)
      ]_vars

C30_Witness ==
    /\ encOp.op = "next_piece"
    /\ encOp.from = "Waiting"
    /\ ~encOp.small
    /\ ret = RetOk(HeaderLen + PieceSize)
    /\ emitted # <<>>
    /\ emitted[Len(emitted)].via = "async"

\* a next_piece call is made in state None
PollsNone == PollStep /\ pending.state = "None"

\* task::spawn: one fetch of piece `index` is added to the running fetches
DispatchesOne(index) ==
    \E s \in FetchSlots :
        /\ ~fetches[s].busy
        /\ fetches' = [fetches EXCEPT
                          ![s] = [busy |-> TRUE, index |-> index, stale |-> FALSE]]

\* C31: next_piece in state None returns 0 and changes nothing when the cursor
\* is exhausted or its head is not in the cache; when the synchronous read of
\* the head succeeds it pops the head, returns the encoded length and stays in
\* None; when the read fails with UnSupport it moves to Pending(head),
\* dispatches one fetch, pops nothing and returns 0; on any other read failure
\* it returns that error, stays in None and pops nothing.
C31_NonePoll ==
    [][ PollsNone =>
          LET head == outcome_next(outIndices)
              range == stream_piece_range(head)
          IN  IF head = -1 \/ ~exists(head)
              THEN /\ ret' = RetOk(0)
                   /\ encOp'.read = "none"
                   /\ UNCHANGED <<pending, outIndices, fetches, emitted, cacheVars>>
              ELSE CASE encOp'.read = "Ok" ->
                          /\ outIndices' = Tail(outIndices)
                          /\ ret' = RetOk(HeaderLen + (range.end - range.start))
                          /\ emitted' = Append(emitted,
                                 [index |-> head, via |-> "sync", stale |-> FALSE])
                          /\ UNCHANGED <<pending, fetches, cacheVars>>
                     [] encOp'.read = "UnSupport" ->
                          /\ pending' = Pending(head)
                          /\ DispatchesOne(head)
                          /\ ret' = RetOk(0)
                          /\ UNCHANGED <<outIndices, emitted, cacheVars>>
                     [] encOp'.read \in {"Io", "InvalidInput", "NotFound"} ->
                          /\ ret' = RetErr(encOp'.read)
                          /\ UNCHANGED <<pending, outIndices, fetches, emitted,
                                         cacheVars>>
                     \* no read was made: the header could not be encoded
                     [] encOp'.read = "none" -> encOp'.small
      ]_vars

C31_Witness ==
    /\ encOp.op = "next_piece"
    /\ encOp.from = "None"
    /\ encOp.read = "UnSupport"
    /\ pending.state = "Pending"
    /\ pending.index = outcome_next(outIndices)
    /\ InFlight # {}
    /\ ret = RetOk(0)
    /\ emitted # <<>>

\* the fetch of the pending piece completes with a failure
FetchFails ==
    /\ encOp' # encOp
    /\ encOp'.op = "async_next_piece"
    /\ encOp'.read # "Ok"
    /\ pending.state = "Pending"
    /\ encOp'.index = pending.index

\* a next_piece call is made in state Waiting(desc, Err(err))
PollsFailed == PollStep /\ pending.state = "Waiting" /\ pending.result # "Ok"

\* C32: a failure of the fetch of the pending piece is stored in Waiting; the
\* next_piece call that finds it returns that error, returns the encoder to
\* None and pops nothing, so that the same index is still the head of the
\* cursor for a later call.
C32_FetchFailureDelivered ==
    [][ /\ FetchFails =>
              /\ pending'.state = "Waiting"
              /\ pending'.index = pending.index
              /\ pending'.result = encOp'.read
              /\ UNCHANGED <<outIndices, emitted, ret>>
        /\ PollsFailed =>
              /\ ret' = RetErr(pending.result)
              /\ pending' = PendingNone
              /\ UNCHANGED <<outIndices, emitted, fetches>>
              /\ outcome_next(outIndices') = pending.index
      ]_vars

C32_Witness ==
    /\ encOp.op = "next_piece"
    /\ encOp.from = "Waiting"
    /\ ret = RetErr("Io")
    /\ pending = PendingNone
    /\ outIndices # <<>>
    /\ emitted # <<>>

\* a merge call is made
MergeStep == encOp' # encOp /\ encOp'.op = "merge"

\* the indices a cursor still has to send
Remaining(q) == {q[k] : k \in 1 .. Len(q)}

\* the indices the ranges of `lost` cover
ReportedLost(lost) ==
    {i \in Indices : \E k \in 1 .. Len(lost) : lost[k].start <= i /\ i < lost[k].end}

\* C33 as stated: after merge(max_index, lost_ranges) the encoder goes on to
\* send the indices at or below max_index reported lost together with the
\* indices not yet sent; indices at or below max_index that were sent and not
\* reported lost are not sent again.
C33_MergeResendsOnlyLost ==
    [][ MergeStep =>
          Remaining(outIndices') =
              Remaining(outIndices)
                  \cup {i \in Remaining(outcome_reset(encDesc)) :
                            i <= encOp'.index /\ i \in ReportedLost(encOp'.lost)}
      ]_vars

\* C34: whatever its arguments, merge leaves the encoder in the state reset
\* would: the Outcome cursor rewound to the configured start, and a Pending or
\* Waiting piece kept only when its index is the new head of the cursor.
C34_MergeIsReset ==
    [][ MergeStep =>
          /\ outIndices' = NewOutcomeIndexQueue(encDesc.start, encDesc.end,
                                                encDesc.step)
          /\ pending' = PendingAfterReset(pending, outcome_next(outIndices'))
          /\ (pending'.state # "None") =>
                 (pending' = pending /\ pending.index = encDesc.start)
          /\ UNCHANGED <<ret, encDesc, cacheVars>>
          /\ \A s \in FetchSlots :
                 /\ fetches'[s].busy = fetches[s].busy
                 /\ fetches'[s].index = fetches[s].index
      ]_vars

C34_Witness ==
    /\ encOp.op = "merge"
    /\ encOp.from = "Waiting"
    /\ encOp.lost # <<>>
    /\ encOp.index = 1
    /\ pending = PendingNone
    /\ outIndices = outcome_reset(encDesc)
    /\ outcome_next(outIndices) = 0
    /\ \E s \in FetchSlots : fetches[s].busy /\ fetches[s].stale

\* ----------------------------------------------------- ChunkTask, again
\* C35: in every state that a holder of the state lock can observe, control
\* state Canceled implies that the task state is not Downloading, and task
\* state Error(UserCanceled) implies that the control state is Canceled.
C35_CanceledTogether ==
    /\ ControlStateOf(control_state) = "Canceled" => task_state # Downloading
    /\ task_state = TaskError("UserCanceled") =>
           ControlStateOf(control_state) = "Canceled"

C35_Witness ==
    /\ control_state = "Canceled"
    /\ task_state = TaskError("UserCanceled")
    /\ \E t \in Cancelers : tcall[t].pc = "wake" /\ tcall[t].first
    /\ \E t \in Cancelers : tcall[t].pc = "wake" /\ ~tcall[t].first

\* ------------------------------------------------ ChannelManager, again
\* the Channel the last completed call of caller c returned
ReturnedChannel(c) ==
    mcall[c].pc = "idle" /\ mcall[c].kind = "Ok"

\* C36: the registry only grows: no step removes or replaces an entry, and a
\* Channel that channel_of or create_channel returned for a peer is that
\* peer's entry from then on, so that every later call returns the same one.
C36_RegistryOnlyGrows ==
    /\ [][\A p \in DOMAIN entries :
             p \in DOMAIN entries' /\ entries'[p].id = entries[p].id]_vars
    /\ [](/\ lookup.kind = "Some" =>
               /\ lookup.peer \in DOMAIN entries
               /\ entries[lookup.peer].id = lookup.channel
           /\ \A c \in Creators :
                  ReturnedChannel(c) =>
                      /\ mcall[c].peer \in DOMAIN entries
                      /\ entries[mcall[c].peer].id = mcall[c].channel
           /\ \A p \in Peers : constructed[p] <= 1)

C36_Witness ==
    /\ DOMAIN entries = Peers
    /\ lookup.op = "channel_of" /\ lookup.kind = "Some"
    /\ sched.ticks = 1
    /\ \E c \in Creators \ {0} :
           /\ ReturnedChannel(c)
           /\ mcall[c].existed
           /\ mcall[c].peer = lookup.peer
           /\ mcall[c].channel = lookup.channel
    /\ rloop.routed # <<>>

\* ------------------------------------------------ ChunkStreamCache, again
\* caller c enters push_piece_data
EntersPush(c) == call[c].pc \in {"idle", "done"} /\ call'[c] # call[c]

\* an earlier push of piece i reserved it and failed, no push of piece i is
\* under way, and i is not committed
FailedBefore(c, i) ==
    /\ i \in errorsOn
    /\ i \notin indices.committed
    /\ ~InProgress(c, i)

\* C37 as stated: a push_piece_data call that reserved index i and then failed
\* does not block index i: a later push_piece_data for i is again accepted as
\* a new piece, not reported as exists or invalid.
C37_FailedPushDoesNotBlock ==
    [][ \A c \in Callers :
          (/\ EntersPush(c)
           /\ ~OutOfWindow(DecoderDesc(call'[c].dec), call'[c].index)
           /\ FailedBefore(c, call'[c].index))
          => /\ call'[c].pc = "reserved"
             /\ call'[c].won
      ]_vars

\* the push of caller c returned finished=true on decoder d
ReportsFinished(c, d) ==
    /\ call[c].pc = "done"
    /\ call[c].dec = d
    /\ call[c].result.finished

\* C38 as stated: of the pushes made concurrently on one decoder window
\* exactly one returns finished=true: no two pushes on the decoder both report
\* finished, and the push whose commit completes the window reports it.
C38_FinishedExactlyOnce ==
    /\ \A d \in Decoders :
           \A c1 \in Callers, c2 \in Callers :
               (ReportsFinished(c1, d) /\ ReportsFinished(c2, d)) => c1 = c2
    /\ \A c \in Callers :
           (call[c].pc = "done" /\ call[c].last) => call[c].result.finished

\* ------------------------------------------------- StreamEncoder, progress
\* the indices emitted since the last reset/merge
EmittedIndices == [k \in 1 .. Len(emitted) |-> emitted[k].index]

\* the cursor is exhausted and nothing is pending
Exhausted == outIndices = <<>> /\ pending.state = "None"

\* unless reset/merge calls go on forever, the cursor is eventually exhausted
\* for good with no piece pending
EncoderExhausts == ([]<><<RewindStep>>_vars) \/ <>[]Exhausted

\* C39 as stated: on a complete cache whose fetches succeed, unless reset/merge
\* calls go on forever, repeated next_piece calls eventually emit every
\* remaining index and exhaust the cursor, and the encoder does not stay in
\* Pending forever.
C39_EncoderProgress ==
    \/ []<><<RewindStep>>_vars
    \/ <>[](Exhausted /\ EmittedIndices = outcome_reset(encDesc))

====
